---- MODULE Spec2Model ----
(***************************************************************************)
(* A model of the simulated LAN layer of bacpypes (vlan.py): Network,      *)
(* Node, IPv4Network, IPv4RouterNode and IPv4Router, with the zero-delay   *)
(* task queue that carries a sent PDU to Network.process_pdu, and of the   *)
(* Address classes of pdu.py: parsing, display, equality and hashing.      *)
(*                                                                         *)
(* Python values are encoded as follows.  An address is a tuple: <<n>> is  *)
(* the plain address n, <<ip, port>> is an IPv4 socket tuple with the ip   *)
(* as a 32-bit integer, and <<>> is None.  An object reference is an       *)
(* identifier: a string for networks and nodes, an index into pdus for a   *)
(* PDU.  "None" is the null network reference.                             *)
(***************************************************************************)
EXTENDS Integers, Sequences, FiniteSets, TLC

VARIABLES
    net,        \* Network objects: name, nodes, broadcast_address, drop_percent, traffic_log, network
    node,       \* Node objects: lan, address, name, promiscuous, spoofing, peer
    router,     \* the IPv4Router object: nodes, the list of IPv4RouterNode adapters
    tasks,      \* the scheduler's queue of zero-delay tasks
    pdus,       \* the PDU objects, by reference
    recv,       \* the PDU references each node has handed to its upper layer
    lastOp,     \* the last operation called and how it ended
    trace,      \* what the last operation did, in order
    sends,      \* the Node.indication calls made by the application: node, PDU, outcome
    submitted,  \* number of tasks ever scheduled
    dispatched, \* the tasks run, in order
    reconfs,    \* number of add_node / remove_node / add_network calls
    mutations,  \* number of times a receive handler changed a PDU it holds
    made,       \* the Address(...) calls made: what was passed and what came back
    said,       \* the last str() or == asked of the addresses made, and its answer
    resolved,   \* the IRI.resolve calls made: base, reference and result
    tagset      \* a TagSet: its tags, in order, and the last operation on it

vars == <<net, node, router, tasks, pdus, recv, lastOp, trace, sends,
          submitted, dispatched, reconfs, mutations, made, said, resolved, tagset>>

\* number of Node.indication calls made by the application
calls == Len(sends)

\* the references of the PDUs the application built and holds
appPdus == {sends[i].pdu : i \in 1..Len(sends)}

-----------------------------------------------------------------------------
(* Bounds of the model.                                                    *)

MaxCalls == 1

MaxReconf == 1

MaxMutations == 2

MaxDispatch == 4

MaxIPCalls == 2

MaxMembershipOps == 3

MaxLossyCalls == 1

MaxSubnetOps == 3

MaxTextCalls == 1

MaxDecimal == 260

MaxAddressCalls == 2

MaxRoundTripCalls == 1

\* the Address(...) calls of one behaviour of SpecRange
MaxRangeCalls == 2

\* the Address(...) calls of one behaviour of SpecLength
MaxLengthCalls == 2

\* the Address(...) calls of one behaviour of SpecInvalid
MaxInvalidCalls == 2

\* the Address(...) calls of one behaviour of SpecInterface
MaxInterfaceCalls == 2

\* the most segments of the path of a reference given to IRI.resolve
MaxSegments == 3

\* the IRI.resolve calls of one behaviour of SpecResolve
MaxResolveCalls == 1

\* the sends and the add_node / remove_node calls of one behaviour of SpecTiming
MaxTimingCalls == 1

MaxTimingReconfs == 2

\* the sends of one behaviour of SpecBounce
MaxBounceCalls == 1

\* the most tags a TagSet of SpecTags holds
MaxTags == 3

-----------------------------------------------------------------------------
(* Values.                                                                 *)

None == <<>>

NoLan == "None"

\* the draws of random.random() * 100.0 the model tries: the ends and the middle of [0, 100)
Draws == {0, 50, 99}

\* what a receive handler writes into a field of a PDU it was given
Scribble == <<77>>

\* an operation: its name, the object it was called on, that object's network, the PDU
\* passed (its reference, and its fields at the call), a position, and the outcome
Op(op, who, lan, pdu, idx, arg, result) ==
    [op |-> op, who |-> who, lan |-> lan, pdu |-> pdu, idx |-> idx,
     arg |-> arg, result |-> result]

Event(ev, who, pdu) == [ev |-> ev, who |-> who, pdu |-> pdu]

\* the state a call threads through: what it may change, and the exception raised
Ctx(t, p, r, tr, s) ==
    [tasks |-> t, pdus |-> p, recv |-> r, trace |-> tr, submitted |-> s, exc |-> "none"]

Here == Ctx(tasks, pdus, recv, <<>>, submitted)

Raise(st, exc) == [st EXCEPT !.exc = exc]

\* an enquiry: str(made[on]), or made[on] == made[other] together with the two hashes
Enquiry(op, on, other, text, equal, hashes) ==
    [op |-> op, on |-> on, other |-> other, text |-> text, equal |-> equal, hashes |-> hashes]

NoEnquiry == Enquiry("none", 0, 0, <<>>, FALSE, <<>>)

-----------------------------------------------------------------------------
(* IPv4 arithmetic (ipaddress.IPv4Interface / IPv4Network).                *)

\* a.b.c.d as an integer
IP(a, b, c, d) == ((a * 256 + b) * 256 + c) * 256 + d

\* a network <<base, prefixlen>>: the number of addresses in it
NumAddresses(nw) == 2 ^ (32 - nw[2])

\* addr.ip in network
InNetwork(ip, nw) == ip \div NumAddresses(nw) = nw[1] \div NumAddresses(nw)

\* int(addr) & int(addr.hostmask)
HostBits(ip, prefixlen) == ip % (2 ^ (32 - prefixlen))

\* addr.addrBroadcastTuple
BroadcastTuple(nw, port) == <<nw[1] + NumAddresses(nw) - 1, port>>

DefaultPort == 47808

-----------------------------------------------------------------------------
(* The task queue (bacpypes.task, OneShotFunction).                        *)

\* OneShotFunction(fn, pdu): a zero-delay task joins the end of the queue
ScheduleTaskFront(queue, task) == <<task>> \o queue

ScheduleTask(queue, task) == Append(queue, task)

-----------------------------------------------------------------------------
(* Node.indication                                                         *)

\* "not self.lan": None, or a Network whose __len__ is 0
Unbound(n) == node[n].lan = NoLan \/ Len(net[node[n].lan].nodes) = 0

NodeIndicationNoSpoofCheck(st, n, ref) ==
    IF Unbound(n) THEN Raise(st, "ConfigurationError")
    ELSE LET src == IF st.pdus[ref].pduSource = None THEN node[n].address
                    ELSE st.pdus[ref].pduSource
             task == [lan |-> node[n].lan, pdu |-> ref, seq |-> st.submitted + 1]
         IN [st EXCEPT !.pdus[ref].pduSource = src,
                       !.tasks = ScheduleTask(@, task),
                       !.submitted = @ + 1,
                       !.trace = Append(@, Event("schedule", node[n].lan, ref))]

NodeIndicationFillFirst(st, n, ref) ==
    LET filled == [st EXCEPT !.pdus[ref].pduSource =
                       IF @ = None THEN node[n].address ELSE @]
    IN IF Unbound(n) THEN Raise(filled, "ConfigurationError")
       ELSE NodeIndicationNoSpoofCheck(st, n, ref)

RECURSIVE NetworkProcessPdu(_, _, _, _)

NodeIndicationImmediate(st, n, ref) ==
    IF Unbound(n) THEN Raise(st, "ConfigurationError")
    ELSE IF (~node[n].spoofing) /\ st.pdus[ref].pduSource \notin {None, node[n].address}
    THEN Raise(st, "RuntimeError")
    ELSE NetworkProcessPdu(
             [st EXCEPT !.pdus[ref].pduSource = IF @ = None THEN node[n].address ELSE @],
             node[n].lan, ref, 99)

NodeIndicationFilledOnly(st, n, ref) ==
    IF Unbound(n) THEN Raise(st, "ConfigurationError")
    ELSE IF st.pdus[ref].pduSource = None
    THEN NodeIndicationNoSpoofCheck(st, n, ref)
    ELSE IF (~node[n].spoofing) /\ st.pdus[ref].pduSource # node[n].address
    THEN Raise(st, "RuntimeError")
    ELSE st

NodeIndication(st, n, ref) ==
    IF Unbound(n) THEN Raise(st, "ConfigurationError")
    ELSE IF st.pdus[ref].pduSource = None
    THEN LET task == [lan |-> node[n].lan, pdu |-> ref, seq |-> st.submitted + 1]
         IN [st EXCEPT !.pdus[ref].pduSource = node[n].address,
                       !.tasks = ScheduleTask(@, task),
                       !.submitted = @ + 1,
                       !.trace = Append(@, Event("schedule", node[n].lan, ref))]
    ELSE IF (~node[n].spoofing) /\ st.pdus[ref].pduSource # node[n].address
    THEN Raise(st, "RuntimeError")
    ELSE LET task == [lan |-> node[n].lan, pdu |-> ref, seq |-> st.submitted + 1]
         IN [st EXCEPT !.tasks = ScheduleTask(@, task),
                       !.submitted = @ + 1,
                       !.trace = Append(@, Event("schedule", node[n].lan, ref))]

-----------------------------------------------------------------------------
(* IPv4Router.process_pdu and IPv4RouterNode                               *)

\* IPv4RouterNode.process_pdu: self.request(pdu), which is the adapter's node's indication
RouterNodeProcessPduDirect(st, i, ref) == NetworkProcessPdu(st, router.nodes[i].lan, ref, 99)

RouterNodeProcessPdu(st, i, ref) == NodeIndication(st, router.nodes[i].node, ref)

RECURSIVE RouterLoopAll(_, _, _, _)
RouterLoopAll(st, origin, ref, i) ==
    IF i > Len(router.nodes) \/ st.exc # "none" THEN st
    ELSE IF i # origin
    THEN RouterLoopAll(
             RouterNodeProcessPdu(
                 [st EXCEPT !.trace = Append(@, Event("forward", router.nodes[i].node, ref))],
                 i, ref),
             origin, ref, i + 1)
    ELSE RouterLoopAll(st, origin, ref, i + 1)

RECURSIVE RouterLoop(_, _, _, _)
\* "for router_node in self.nodes", from the i-th adapter on; an exception ends the loop
RouterLoop(st, origin, ref, i) ==
    IF i > Len(router.nodes) \/ st.exc # "none" THEN st
    ELSE IF i = origin THEN RouterLoop(st, origin, ref, i + 1)
    ELSE IF InNetwork(st.pdus[ref].pduDestination[1], net[router.nodes[i].lan].network)
    THEN RouterLoop(
             RouterNodeProcessPdu(
                 [st EXCEPT !.trace = Append(@, Event("forward", router.nodes[i].node, ref))],
                 i, ref),
             origin, ref, i + 1)
    ELSE RouterLoop(st, origin, ref, i + 1)

\* IPv4Router.process_pdu(node, pdu), node being the origin-th adapter
RouterProcessPdu(st, origin, ref) ==
    IF st.pdus[ref].pduDestination = None
    THEN Raise([st EXCEPT !.trace = Append(@, Event("route", router.nodes[origin].node, ref))],
               "TypeError")
    ELSE
    RouterLoop([st EXCEPT !.trace = Append(@, Event("route", router.nodes[origin].node, ref))],
               origin, ref, 1)

-----------------------------------------------------------------------------
(* Network.process_pdu                                                     *)

\* deepcopy(pdu): a new object with the same fields
NoCopy(heap, ref) == [pdus |-> heap, ref |-> ref]

DeepCopy(heap, ref) == [pdus |-> Append(heap, heap[ref]), ref |-> Len(heap) + 1]

\* node.response(pdu): to the node's peer, the router's adapter (IPv4RouterNode.confirmation)
\* or the layer above the node
Response(st, n, ref) ==
    LET st1 == [st EXCEPT !.trace = Append(@, Event("response", n, ref))]
    IN IF node[n].peer = 0
       THEN [st1 EXCEPT !.recv[n] = Append(@, ref)]
       ELSE RouterProcessPdu(st1, node[n].peer, ref)

\* node.response(deepcopy(pdu))
RespondCopy(st, n, ref) ==
    LET c == DeepCopy(st.pdus, ref)
    IN Response([st EXCEPT !.pdus = c.pdus], n, c.ref)

\* the test of the broadcast loop
BroadcastMatchAll(pdu, n) == TRUE

BroadcastMatch(pdu, n) == pdu.pduSource # node[n].address

\* the test of the unicast loop
UnicastMatchNoPromiscuous(pdu, n) == pdu.pduDestination = node[n].address

UnicastMatch(pdu, n) == node[n].promiscuous \/ pdu.pduDestination = node[n].address

RECURSIVE BroadcastLoop(_, _, _, _)
BroadcastLoop(st, l, ref, i) ==
    IF i > Len(net[l].nodes) \/ st.exc # "none" THEN st
    ELSE IF BroadcastMatch(st.pdus[ref], net[l].nodes[i])
    THEN BroadcastLoop(RespondCopy(st, net[l].nodes[i], ref), l, ref, i + 1)
    ELSE BroadcastLoop(st, l, ref, i + 1)

RECURSIVE UnicastLoop(_, _, _, _)
UnicastLoop(st, l, ref, i) ==
    IF i > Len(net[l].nodes) \/ st.exc # "none" THEN st
    ELSE IF UnicastMatch(st.pdus[ref], net[l].nodes[i])
    THEN UnicastLoop(RespondCopy(st, net[l].nodes[i], ref), l, ref, i + 1)
    ELSE UnicastLoop(st, l, ref, i + 1)

\* the drop decision: random.random() is drawn only when drop_percent is not 0
DroppedBelowDraw(l, draw) == net[l].drop_percent # 0 /\ draw + 1 < net[l].drop_percent

Dropped(l, draw) == net[l].drop_percent # 0 /\ draw < net[l].drop_percent

\* Network.process_pdu(pdu) that calls the traffic log after the drop decision
NetworkProcessPduLogAfterDrop(st, l, ref, draw) ==
    IF Dropped(l, draw)
    THEN [st EXCEPT !.trace = Append(@, Event("dropped", l, ref))]
    ELSE LET st1 == IF net[l].traffic_log
                    THEN [st EXCEPT !.trace = Append(@, Event("traffic_log", net[l].name, ref))]
                    ELSE st
         IN IF st1.pdus[ref].pduDestination = net[l].broadcast_address
            THEN BroadcastLoop(st1, l, ref, 1)
            ELSE UnicastLoop(st1, l, ref, 1)

\* Network.process_pdu(pdu) on network l, draw being random.random() * 100.0
NetworkProcessPdu(st, l, ref, draw) ==
    LET st1 == IF net[l].traffic_log
               THEN [st EXCEPT !.trace = Append(@, Event("traffic_log", net[l].name, ref))]
               ELSE st
    IN IF Dropped(l, draw)
       THEN [st1 EXCEPT !.trace = Append(@, Event("dropped", l, ref))]
       ELSE IF st1.pdus[ref].pduDestination = net[l].broadcast_address
       THEN BroadcastLoop(st1, l, ref, 1)
       ELSE UnicastLoop(st1, l, ref, 1)

-----------------------------------------------------------------------------
(* The operations, as steps.                                               *)

\* the state a call leaves behind
Leave(st) ==
    /\ tasks' = st.tasks
    /\ pdus' = st.pdus
    /\ recv' = st.recv
    /\ trace' = st.trace
    /\ submitted' = st.submitted

Outcome(st) == IF st.exc = "none" THEN "ok" ELSE st.exc

\* the nodes the application drives: those whose peer is not a router adapter
AppNodes == {n \in DOMAIN node : node[n].peer = 0}

\* the addresses the application puts into a PDU: as source none or that of A (of X),
\* as destination that of B (of Y), a broadcast address, or one that is nobody's
SourceChoices == {None} \cup {node[n].address : n \in AppNodes \cap {"A", "X"}}

Strangers == IF router.nodes = <<>> THEN {} ELSE {<<IP(10, 0, 9, 9), DefaultPort>>}

DestinationChoices ==
    {node[n].address : n \in AppNodes \cap {"B", "Y"}}
        \cup {net[l].broadcast_address : l \in DOMAIN net} \cup Strangers

\* the application builds a PDU and calls n.indication(pdu)
Indication(n, src, dst, max) ==
    /\ calls < max
    /\ LET ref == Len(pdus) + 1
           pdu == [pduSource |-> src, pduDestination |-> dst, pduData |-> <<calls + 1>>]
           st == NodeIndication([Here EXCEPT !.pdus = Append(@, pdu)], n, ref)
       IN /\ Leave(st)
          /\ lastOp' = Op("indication", n, node[n].lan, ref, 0, pdu, Outcome(st))
          /\ sends' = Append(sends, [node |-> n, pdu |-> ref, result |-> Outcome(st)])
    /\ UNCHANGED <<net, node, router, dispatched, reconfs, mutations, made, said, resolved, tagset>>

\* the scheduler runs the task at the head of its queue: lan.process_pdu(pdu)
RunTask(draw) ==
    /\ tasks # <<>>
    /\ LET t == Head(tasks)
           st == NetworkProcessPdu([Here EXCEPT !.tasks = Tail(tasks)], t.lan, t.pdu, draw)
       IN /\ Leave(st)
          /\ lastOp' = Op("process_pdu", t.lan, t.lan, t.pdu, t.seq,
                          pdus[t.pdu],
                          IF \E i \in 1..Len(st.trace) : st.trace[i].ev = "dropped"
                          THEN "dropped" ELSE Outcome(st))
          /\ dispatched' = Append(dispatched, t)
    /\ UNCHANGED <<net, node, router, sends, reconfs, mutations, made, said, resolved, tagset>>

\* Network.add_node(node), without the check an IPv4Network makes first
AddNodeNoSubnetCheck(l, n, max) ==
    /\ reconfs < max
    /\ reconfs' = reconfs + 1
    /\ trace' = <<>>
    /\ net' = [net EXCEPT ![l].nodes = Append(@, n)]
    /\ node' = [node EXCEPT ![n].lan = l,
                            ![n].name = IF @ = None
                                        THEN <<net[l].name, node[n].address>>
                                        ELSE @]
    /\ lastOp' = Op("add_node", n, l, 0, 0, None, "ok")
    /\ UNCHANGED <<router, tasks, pdus, recv, sends, submitted, dispatched, mutations, made, said, resolved, tagset>>

\* Network.add_node(node); an IPv4Network first checks the node's address.  The call is
\* one of at most max reconfigurations.
AddNodeCall(l, n, max) ==
    /\ reconfs < max
    /\ reconfs' = reconfs + 1
    /\ trace' = <<>>
    /\ IF net[l].network # None /\ ~InNetwork(node[n].address[1], net[l].network)
       THEN /\ lastOp' = Op("add_node", n, l, 0, 0, None, "ValueError")
            /\ UNCHANGED <<net, node>>
       ELSE /\ net' = [net EXCEPT ![l].nodes = Append(@, n)]
            /\ node' = [node EXCEPT ![n].lan = l,
                                    ![n].name = IF @ = None
                                                THEN <<net[l].name, node[n].address>>
                                                ELSE @]
            /\ lastOp' = Op("add_node", n, l, 0, 0, None, "ok")
    /\ UNCHANGED <<router, tasks, pdus, recv, sends, submitted, dispatched, mutations, made, said, resolved, tagset>>

AddNode(l, n) == AddNodeCall(l, n, MaxReconf)

RECURSIVE RemoveFirst(_, _)
\* list.remove(x): without the first element equal to x
RemoveFirst(s, x) ==
    IF s = <<>> THEN <<>>
    ELSE IF Head(s) = x THEN Tail(s)
    ELSE <<Head(s)>> \o RemoveFirst(Tail(s), x)

\* Network.remove_node(node) that ignores a node that is not listed
RemoveNodeQuiet(l, n, max) ==
    /\ reconfs < max
    /\ reconfs' = reconfs + 1
    /\ trace' = <<>>
    /\ net' = [net EXCEPT ![l].nodes = RemoveFirst(@, n)]
    /\ node' = [node EXCEPT ![n].lan = NoLan]
    /\ lastOp' = Op("remove_node", n, l, 0, 0, None, "ok")
    /\ UNCHANGED <<router, tasks, pdus, recv, sends, submitted, dispatched, mutations, made, said, resolved, tagset>>

\* Network.remove_node(node), one of at most max reconfigurations
RemoveNodeCall(l, n, max) ==
    /\ reconfs < max
    /\ reconfs' = reconfs + 1
    /\ trace' = <<>>
    /\ IF \E i \in 1..Len(net[l].nodes) : net[l].nodes[i] = n
       THEN /\ net' = [net EXCEPT ![l].nodes = RemoveFirst(@, n)]
            /\ node' = [node EXCEPT ![n].lan = NoLan]
            /\ lastOp' = Op("remove_node", n, l, 0, 0, None, "ok")
       ELSE /\ lastOp' = Op("remove_node", n, l, 0, 0, None, "ValueError")
            /\ UNCHANGED <<net, node>>
    /\ UNCHANGED <<router, tasks, pdus, recv, sends, submitted, dispatched, mutations, made, said, resolved, tagset>>

RemoveNode(l, n) == RemoveNodeCall(l, n, MaxReconf)

\* Node(addr, lan): a new node n, bound to lan when one is given; when the bind fails the
\* constructor fails and there is no node
Construct(n, addr, l, max) ==
    /\ reconfs < max
    /\ n \notin DOMAIN node
    /\ reconfs' = reconfs + 1
    /\ trace' = <<>>
    /\ IF l # NoLan /\ net[l].network # None /\ ~InNetwork(addr[1], net[l].network)
       THEN /\ lastOp' = Op("Node", n, l, 0, 0, addr, "ValueError")
            /\ UNCHANGED <<net, node, recv>>
       ELSE /\ net' = IF l = NoLan THEN net ELSE [net EXCEPT ![l].nodes = Append(@, n)]
            /\ node' = [m \in DOMAIN node \cup {n} |->
                          IF m # n THEN node[m]
                          ELSE IF l = NoLan THEN [lan |-> NoLan, address |-> addr, name |-> None,
                                                  promiscuous |-> FALSE, spoofing |-> FALSE,
                                                  peer |-> 0]
                          ELSE [lan |-> l, address |-> addr, name |-> <<net[l].name, addr>>,
                                promiscuous |-> FALSE, spoofing |-> FALSE, peer |-> 0]]
            /\ recv' = [m \in DOMAIN node \cup {n} |-> IF m = n THEN <<>> ELSE recv[m]]
            /\ lastOp' = Op("Node", n, l, 0, 0, addr, "ok")
    /\ UNCHANGED <<router, tasks, pdus, sends, submitted, dispatched, mutations, made, said, resolved, tagset>>

\* the fields of a PDU
PduFields == {"pduSource", "pduDestination", "pduData"}

\* the layer above node n changes field f of the i-th PDU it was given
HandlerMutate(n, i, f) ==
    /\ mutations < MaxMutations
    /\ i \in 1..Len(recv[n])
    /\ pdus' = [pdus EXCEPT ![recv[n][i]][f] = Scribble]
    /\ mutations' = mutations + 1
    /\ lastOp' = Op("mutate", n, node[n].lan, recv[n][i], i, None, "ok")
    /\ trace' = <<>>
    /\ UNCHANGED <<net, node, router, tasks, recv, sends, submitted, dispatched, reconfs, made, said, resolved, tagset>>

-----------------------------------------------------------------------------
(* The plain LAN: two Networks and three Nodes constructed on the first.   *)

NetworkObj(name, nodes, bcast, drop, log, nw) ==
    [name |-> name, nodes |-> nodes, broadcast_address |-> bcast,
     drop_percent |-> drop, traffic_log |-> log, network |-> nw]

NodeObj(lan, addr, name, promiscuous, spoofing, peer) ==
    [lan |-> lan, address |-> addr, name |-> name,
     promiscuous |-> promiscuous, spoofing |-> spoofing, peer |-> peer]

Init ==
    /\ net = [l \in {"lan1", "lan2"} |->
                IF l = "lan1"
                THEN NetworkObj("lan1", <<"A", "B", "C">>, <<0>>, 0, FALSE, None)
                ELSE NetworkObj("lan2", <<>>, None, 50, TRUE, None)]
    /\ node = [n \in {"A", "B", "C"} |->
                CASE n = "A" -> NodeObj("lan1", <<1>>, <<"lan1", <<1>>>>, FALSE, FALSE, 0)
                  [] n = "B" -> NodeObj("lan1", <<2>>, <<"lan1", <<2>>>>, FALSE, TRUE, 0)
                  [] n = "C" -> NodeObj("lan1", <<3>>, <<"lan1", <<3>>>>, TRUE, FALSE, 0)]
    /\ router = [nodes |-> <<>>]
    /\ tasks = <<>>
    /\ pdus = <<>>
    /\ recv = [n \in {"A", "B", "C"} |-> <<>>]
    /\ lastOp = Op("init", "", NoLan, 0, 0, None, "ok")
    /\ trace = <<>>
    /\ sends = <<>>
    /\ submitted = 0
    /\ dispatched = <<>>
    /\ reconfs = 0
    /\ mutations = 0
    /\ made = <<>>
    /\ said = NoEnquiry
    /\ resolved = <<>>
    /\ tagset = <<>>

Send == \E n \in AppNodes, src \in SourceChoices, dst \in DestinationChoices :
            Indication(n, src, dst, MaxCalls)

\* random.random() is called only when the task's network has a drop_percent
Run == \E draw \in Draws :
           /\ tasks # <<>>
           /\ net[Head(tasks).lan].drop_percent = 0 => draw = 0
           /\ RunTask(draw)

Bind == \E l \in DOMAIN net, n \in AppNodes : AddNode(l, n)

Unbind == \E l \in DOMAIN net, n \in AppNodes : RemoveNode(l, n)

Mutate == \E n \in AppNodes, i \in 1..Len(pdus), f \in PduFields : HandlerMutate(n, i, f)

Next == Send \/ Run \/ Bind \/ Unbind

Spec == Init /\ [][Next]_vars

\* the scheduler runs the task at the head of its queue.  Only a Run step changes
\* dispatched, and it does so whenever there is a task: fairness of this step is
\* fairness of Run.
HeadRuns == tasks # <<>> /\ dispatched' = Append(dispatched, Head(tasks))

\* the scheduler runs every task it was given: a task that waits is run in the end
FairSpec == Init /\ [][Next]_vars /\ WF_dispatched(HeadRuns)

NextHandlers == Send \/ Run \/ Mutate

SpecHandlers == Init /\ [][NextHandlers]_vars

\* Membership alone: nodes are made, bound and removed, and nothing is sent.
NewNodes == {"D"}

Enroll == \E l \in DOMAIN net \cup {NoLan}, n \in NewNodes : Construct(n, <<4>>, l, MaxMembershipOps)

\* Node.bind(lan) is lan.add_node(node)
Rebind == \E l \in DOMAIN net, n \in AppNodes : AddNodeCall(l, n, MaxMembershipOps)

Detach == \E l \in DOMAIN net, n \in AppNodes : RemoveNodeCall(l, n, MaxMembershipOps)

NextMembership == Enroll \/ Rebind \/ Detach

SpecMembership == Init /\ [][NextMembership]_vars

\* The plain LAN with a loss rate and, or not, a traffic log on the network of A, B and C.
DropPercents == {0, 50, 100}

InitLossy ==
    /\ \E d \in DropPercents, log \in BOOLEAN :
           net = [l \in {"lan1", "lan2"} |->
                    IF l = "lan1"
                    THEN NetworkObj("lan1", <<"A", "B", "C">>, <<0>>, d, log, None)
                    ELSE NetworkObj("lan2", <<>>, None, 50, TRUE, None)]
    /\ node = [n \in {"A", "B", "C"} |->
                CASE n = "A" -> NodeObj("lan1", <<1>>, <<"lan1", <<1>>>>, FALSE, FALSE, 0)
                  [] n = "B" -> NodeObj("lan1", <<2>>, <<"lan1", <<2>>>>, FALSE, TRUE, 0)
                  [] n = "C" -> NodeObj("lan1", <<3>>, <<"lan1", <<3>>>>, TRUE, FALSE, 0)]
    /\ router = [nodes |-> <<>>]
    /\ tasks = <<>>
    /\ pdus = <<>>
    /\ recv = [n \in {"A", "B", "C"} |-> <<>>]
    /\ lastOp = Op("init", "", NoLan, 0, 0, None, "ok")
    /\ trace = <<>>
    /\ sends = <<>>
    /\ submitted = 0
    /\ dispatched = <<>>
    /\ reconfs = 0
    /\ mutations = 0
    /\ made = <<>>
    /\ said = NoEnquiry
    /\ resolved = <<>>
    /\ tagset = <<>>

SendLossy == \E n \in AppNodes, src \in SourceChoices, dst \in DestinationChoices :
                 Indication(n, src, dst, MaxLossyCalls)

NextLossy == SendLossy \/ Run

SpecLossy == InitLossy /\ [][NextLossy]_vars

-----------------------------------------------------------------------------
(* The routed internetwork: IPv4Networks 10.0.0.0/24 with node X, 10.0.1.0/24 with node   *)
(* Y, an IPv4Router with an adapter on each, and a third IPv4Network 10.0.1.0/25, which    *)
(* overlaps the second, that the router may be attached to later.                          *)

\* IPv4Network(address, name): the address must have no host bits set
IPv4NetworkObj(name, nw) ==
    NetworkObj(name, <<>>, BroadcastTuple(nw, DefaultPort), 0, FALSE, nw)

\* IPv4Node(addr): the node's address is the socket tuple
IPv4NodeObj(lan, name, ip, promiscuous, spoofing, peer) ==
    NodeObj(lan, <<ip, DefaultPort>>, <<name, <<ip, DefaultPort>>>>, promiscuous, spoofing, peer)

Net0 == <<IP(10, 0, 0, 0), 24>>

Net1 == <<IP(10, 0, 1, 0), 24>>

Net2 == <<IP(10, 0, 1, 0), 25>>

\* the node of the i-th adapter the router makes
AdapterNode(i) == "R" \o ToString(i - 1)

\* IPv4Router.add_network(addr, lan): a new IPv4RouterNode with its own IPv4Node on lan
AddNetwork(addr, l) ==
    /\ reconfs < MaxReconf
    /\ reconfs' = reconfs + 1
    /\ trace' = <<>>
    /\ LET i == Len(router.nodes) + 1
           r == AdapterNode(i)
       IN IF ~InNetwork(addr[1], net[l].network)
          THEN /\ lastOp' = Op("add_network", r, l, 0, 0, None, "ValueError")
               /\ UNCHANGED <<net, node, router, recv>>
          ELSE /\ net' = [net EXCEPT ![l].nodes = Append(@, r)]
               /\ node' = [n \in DOMAIN node \cup {r} |->
                             IF n = r
                             THEN NodeObj(l, addr, <<net[l].name, addr>>, TRUE, TRUE, i)
                             ELSE node[n]]
               /\ recv' = [n \in DOMAIN node \cup {r} |-> IF n = r THEN <<>> ELSE recv[n]]
               /\ router' = [router EXCEPT !.nodes = Append(@, [node |-> r, lan |-> l])]
               /\ lastOp' = Op("add_network", r, l, 0, 0, None, "ok")
    /\ UNCHANGED <<tasks, pdus, sends, submitted, dispatched, mutations, made, said, resolved, tagset>>

\* the state after the networks, the nodes and the router with its two adapters are made;
\* nodes and adapters may have been made in either order
InitRouter ==
    /\ HostBits(Net0[1], Net0[2]) = 0 /\ HostBits(Net1[1], Net1[2]) = 0
    /\ HostBits(Net2[1], Net2[2]) = 0
    /\ \E o0 \in {<<"X", "R0">>, <<"R0", "X">>}, o1 \in {<<"Y", "R1">>, <<"R1", "Y">>} :
           net = [l \in {"net0", "net1", "net2"} |->
                    CASE l = "net0" -> [IPv4NetworkObj("net0", Net0) EXCEPT !.nodes = o0]
                      [] l = "net1" -> [IPv4NetworkObj("net1", Net1) EXCEPT !.nodes = o1]
                      [] l = "net2" -> IPv4NetworkObj("net2", Net2)]
    /\ node = [n \in {"X", "Y", "R0", "R1"} |->
                CASE n = "X" -> IPv4NodeObj("net0", "net0", IP(10, 0, 0, 1), FALSE, FALSE, 0)
                  [] n = "Y" -> IPv4NodeObj("net1", "net1", IP(10, 0, 1, 1), FALSE, FALSE, 0)
                  [] n = "R0" -> IPv4NodeObj("net0", "net0", IP(10, 0, 0, 254), TRUE, TRUE, 1)
                  [] n = "R1" -> IPv4NodeObj("net1", "net1", IP(10, 0, 1, 126), TRUE, TRUE, 2)]
    /\ router = [nodes |-> <<[node |-> "R0", lan |-> "net0"], [node |-> "R1", lan |-> "net1"]>>]
    /\ tasks = <<>>
    /\ pdus = <<>>
    /\ recv = [n \in {"X", "Y", "R0", "R1"} |-> <<>>]
    /\ lastOp = Op("init", "", NoLan, 0, 0, None, "ok")
    /\ trace = <<>>
    /\ sends = <<>>
    /\ submitted = 0
    /\ dispatched = <<>>
    /\ reconfs = 0
    /\ mutations = 0
    /\ made = <<>>
    /\ said = NoEnquiry
    /\ resolved = <<>>
    /\ tagset = <<>>

SendIP == \E n \in AppNodes, src \in SourceChoices, dst \in DestinationChoices :
              Indication(n, src, dst, MaxIPCalls)

NextRouter == SendIP \/ Run

\* the scheduler runs every task it was given: a task that waits is run in the end
SpecRouter == InitRouter /\ [][NextRouter]_vars /\ WF_dispatched(HeadRuns)

\* the adapter addresses add_network is tried with
AdapterAddresses == {<<IP(10, 0, 1, 125), DefaultPort>>}

Attach == \E addr \in AdapterAddresses, l \in DOMAIN net : AddNetwork(addr, l)

\* a router on overlapping subnets can forward for ever: the model stops after MaxDispatch tasks
RunSome == Len(dispatched) < MaxDispatch /\ Run

NextOverlap == SendIP \/ RunSome \/ Attach

SpecOverlap == InitRouter /\ [][NextOverlap]_vars

\* Membership of the IPv4Networks: X, Y and a new node Z are bound and removed.
NewAddresses == {<<IP(10, 0, 1, 200), DefaultPort>>, <<IP(10, 0, 9, 9), DefaultPort>>}

\* IPv4Node(addr, lan)
EnrollIP == \E l \in DOMAIN net \cup {NoLan}, addr \in NewAddresses :
                Construct("Z", addr, l, MaxSubnetOps)

RebindIP == \E l \in DOMAIN net, n \in AppNodes : AddNodeCall(l, n, MaxSubnetOps)

DetachIP == \E l \in DOMAIN net, n \in AppNodes : RemoveNodeCall(l, n, MaxSubnetOps)

NextSubnet == EnrollIP \/ RebindIP \/ DetachIP

SpecSubnet == InitRouter /\ [][NextSubnet]_vars

-----------------------------------------------------------------------------
(* Properties of dispatch and send on the plain LAN.                       *)

IsResponse(e) == e.ev = "response"

\* the nodes whose response() the last operation called, in the order of the calls
Responded == [i \in 1..Len(SelectSeq(trace, IsResponse)) |-> SelectSeq(trace, IsResponse)[i].who]

\* the last operation was a process_pdu that did not drop its PDU
Delivering == lastOp.op = "process_pdu" /\ lastOp.result # "dropped"

\* a task for PDU ref is in the queue
Queued(ref) == \E i \in 1..Len(tasks) : tasks[i].pdu = ref

\* C1: a process_pdu that does not drop a PDU whose destination is not the network's
\* broadcast address calls response() on exactly the nodes of the node list that are
\* promiscuous or whose address is the destination, once per entry, in list order.
C1_UnicastRecipients ==
    (Delivering /\ lastOp.arg.pduDestination # net[lastOp.lan].broadcast_address) =>
        LET Addressed(n) == node[n].promiscuous \/ node[n].address = lastOp.arg.pduDestination
        IN Responded = SelectSeq(net[lastOp.lan].nodes, Addressed)

\* C1's example: A, B, C (promiscuous) listed in this order, a unicast from A to B
C1_Witness ==
    /\ Delivering
    /\ net[lastOp.lan].nodes = <<"A", "B", "C">>
    /\ lastOp.arg.pduSource = node["A"].address
    /\ lastOp.arg.pduDestination = node["B"].address
    /\ Responded = <<"B", "C">>

\* C2: a process_pdu that does not drop a PDU whose destination is the network's
\* broadcast address calls response() on every node of the node list whose address
\* differs from the PDU's source, and on no node whose address is the source.
C2_BroadcastRecipients ==
    (Delivering /\ lastOp.arg.pduDestination = net[lastOp.lan].broadcast_address) =>
        LET Other(n) == node[n].address # lastOp.arg.pduSource
        IN Responded = SelectSeq(net[lastOp.lan].nodes, Other)

\* C2's example: a broadcast from A on the network of A, B and C
C2_Witness ==
    /\ Delivering
    /\ net[lastOp.lan].nodes = <<"A", "B", "C">>
    /\ lastOp.arg.pduSource = node["A"].address
    /\ lastOp.arg.pduDestination = net[lastOp.lan].broadcast_address
    /\ Responded = <<"B", "C">>

\* the last operation was an indication on a node that has a network
BoundSend == lastOp.op = "indication" /\ node[lastOp.who].lan # NoLan

\* the last indication put exactly its PDU at the end of the queue, for the node's network
Scheduled ==
    /\ tasks # <<>>
    /\ tasks[Len(tasks)].pdu = lastOp.pdu
    /\ tasks[Len(tasks)].lan = node[lastOp.who].lan
    /\ \A i \in 1..(Len(tasks) - 1) : tasks[i].pdu # lastOp.pdu

\* C3: an indication on a bound node without spoofing fails with the spoofing error and
\* schedules nothing when the PDU's source is set and is not the node's address, and
\* otherwise schedules the PDU with the node's address as its source; with spoofing a
\* source the sender supplied is left as it is and the PDU is scheduled.
C3_SpoofingCheck ==
    BoundSend =>
        LET n == lastOp.who
            given == lastOp.arg.pduSource
        IN /\ (~node[n].spoofing /\ given # None /\ given # node[n].address) =>
                  /\ lastOp.result = "RuntimeError"
                  /\ ~Queued(lastOp.pdu)
           /\ (~node[n].spoofing /\ (given = None \/ given = node[n].address)) =>
                  /\ lastOp.result = "ok"
                  /\ Scheduled
                  /\ pdus[lastOp.pdu].pduSource = node[n].address
           /\ (node[n].spoofing /\ given # None) =>
                  /\ lastOp.result = "ok"
                  /\ Scheduled
                  /\ pdus[lastOp.pdu].pduSource = given

\* a node without spoofing was handed a PDU with another node's address as source
C3_Witness ==
    /\ BoundSend
    /\ ~node[lastOp.who].spoofing
    /\ lastOp.arg.pduSource \notin {None, node[lastOp.who].address}
    /\ lastOp.result = "RuntimeError"

\* C4: an indication on a node that has no network fails with the unbound-node error,
\* schedules no task and leaves the PDU, its source included, as it was passed.
C4_UnboundSend ==
    (lastOp.op = "indication" /\ node[lastOp.who].lan = NoLan) =>
        /\ lastOp.result = "ConfigurationError"
        /\ ~Queued(lastOp.pdu)
        /\ trace = <<>>
        /\ pdus[lastOp.pdu] = lastOp.arg

\* a node removed from its network was handed a PDU with no source
C4_Witness ==
    /\ lastOp.op = "indication"
    /\ node[lastOp.who].lan = NoLan
    /\ lastOp.arg.pduSource = None
    /\ lastOp.result = "ConfigurationError"

\* C5: a step that is a call of indication calls no node's response() and no traffic
\* log, and runs no task: a successful call only adds its task to the end of the queue.
C5_SendDoesNotDeliver ==
    [][calls' = calls + 1 =>
          /\ recv' = recv
          /\ dispatched' = dispatched
          /\ \A i \in 1..Len(trace') : trace'[i].ev = "schedule"
          /\ lastOp'.result = "ok" =>
                 /\ Len(tasks') = Len(tasks) + 1
                 /\ SubSeq(tasks', 1, Len(tasks)) = tasks
                 /\ tasks'[Len(tasks')].pdu = lastOp'.pdu]_vars

\* a successful send has returned: its task waits and nobody has received anything
C5_Witness ==
    /\ lastOp.op = "indication"
    /\ lastOp.result = "ok"
    /\ Queued(lastOp.pdu)
    /\ \A n \in DOMAIN recv : recv[n] = <<>>

-----------------------------------------------------------------------------
(* Properties of the copies handed to the receive handlers.                *)

\* the places where a received PDU is held: node n's i-th
Held == {<<n, i>> : n \in DOMAIN recv, i \in 1..Len(pdus)} \cap
            UNION {{<<n, i>> : i \in 1..Len(recv[n])} : n \in DOMAIN recv}

\* C8: when a receive handler changes a field of a PDU it was given, the PDU every other
\* recipient holds (of the same dispatch or another) and every PDU the sender holds keep
\* all their fields.
C8_CopiesIndependent ==
    [][mutations' = mutations + 1 =>
          /\ \A h \in Held : h # <<lastOp'.who, lastOp'.idx>> =>
                 pdus'[recv[h[1]][h[2]]] = pdus[recv[h[1]][h[2]]]
          /\ \A r \in appPdus : pdus'[r] = pdus[r]]_vars

\* B and C were given the same PDU in one dispatch, and one of them has changed its copy
C8_Witness ==
    /\ lastOp.op = "mutate"
    /\ \E h \in Held : h[1] # lastOp.who
          /\ pdus[recv[h[1]][h[2]]].pduData = pdus[lastOp.pdu].pduData
          /\ pdus[recv[h[1]][h[2]]] # pdus[lastOp.pdu]

-----------------------------------------------------------------------------
(* Properties of the task queue and of routing.                            *)

\* the number of tasks run with PDU ref
Ran(ref) == Cardinality({j \in 1..Len(dispatched) : dispatched[j].pdu = ref})

\* the application's i-th call of indication returned without an error
Sent(i) == Len(sends) >= i /\ sends[i].result = "ok"

IsForward(e) == e.ev = "forward"

\* the forwards the router made during the last operation, in order
Forwards == SelectSeq(trace, IsForward)

\* C6: tasks are dispatched in the order of their submission: the k-th task run is the
\* k-th submitted, and the queue holds the later ones in order; the PDUs a router
\* forwards during a dispatch are queued, each for its adapter's network, behind every
\* task that was queued before.
C6_FifoDispatch ==
    /\ \A i \in 1..Len(dispatched) : dispatched[i].seq = i
    /\ \A i \in 1..Len(tasks) : tasks[i].seq = Len(dispatched) + i
    /\ lastOp.op = "process_pdu" =>
           /\ Len(tasks) >= Len(Forwards)
           /\ \A j \in 1..Len(Forwards) :
                  LET t == tasks[Len(tasks) - Len(Forwards) + j]
                  IN /\ t.pdu = Forwards[j].pdu
                     /\ t.lan = node[Forwards[j].who].lan
                     /\ t.seq > lastOp.idx

\* X and Y have both sent, each on its network; the first task was run and the router's
\* forward of it waits behind the second send
C6_Witness ==
    /\ lastOp.op = "process_pdu"
    /\ Len(Forwards) = 1
    /\ Len(tasks) = 2
    /\ Len(sends) = 2
    /\ sends[1].node # sends[2].node
    /\ tasks[1].pdu = sends[2].pdu
    /\ tasks[1].lan # lastOp.lan
    /\ tasks[2].pdu = Forwards[1].pdu

\* the number of PDUs with the payload of the application's i-th PDU that n has received
Copies(n, i) == Cardinality({j \in 1..Len(recv[n]) : pdus[recv[n][j]].pduData = <<i>>})

\* the application's i-th call was a send by X to the address of Y
SentAcross(i) ==
    /\ Len(sends) >= i
    /\ sends[i].node = "X"
    /\ sends[i].result = "ok"
    /\ pdus[sends[i].pdu].pduDestination = node["Y"].address

\* C9: with the router on the two disjoint subnets (X on 10.0.0.0/24, Y on 10.0.1.0/24),
\* a PDU X sends to Y's address is received by Y, in the end exactly once, and never
\* by X.
C9_RelayedOnce ==
    /\ [](\A i \in 1..MaxIPCalls : SentAcross(i) => Copies("Y", i) <= 1 /\ Copies("X", i) = 0)
    /\ \A i \in 1..MaxIPCalls : SentAcross(i) ~> (Copies("Y", i) = 1)

\* Y has received the PDU X sent, from the dispatch of the router's forward on net1
C9_Witness ==
    /\ SentAcross(1)
    /\ Copies("Y", 1) = 1
    /\ lastOp.op = "process_pdu"
    /\ lastOp.lan = "net1"
    /\ Len(dispatched) = 2
    /\ tasks = <<>>

\* the adapters, other than the origin-th, whose subnet holds the destination of PDU ref
Matching(origin, ref) ==
    {j \in 1..Len(router.nodes) :
        j # origin /\ InNetwork(pdus[ref].pduDestination[1], net[router.nodes[j].lan].network)}

Min(S) == CHOOSE x \in S : \A y \in S : x <= y

\* the adapter nodes PDU ref was forwarded to in the last operation, in order
ForwardedTo(ref) ==
    LET ToRef(e) == e.ev = "forward" /\ e.pdu = ref
    IN [k \in 1..Len(SelectSeq(trace, ToRef)) |-> SelectSeq(trace, ToRef)[k].who]

\* C10 as claimed: each PDU an adapter hands to the router is forwarded to at most one
\* adapter, the first in attach order, other than the origin, whose subnet holds the
\* destination.
C10_AtMostOneForward ==
    lastOp.op = "process_pdu" =>
        \A i \in 1..Len(trace) : trace[i].ev = "route" =>
            LET origin == node[trace[i].who].peer
                m == Matching(origin, trace[i].pdu)
            IN ForwardedTo(trace[i].pdu) =
                   IF m = {} THEN <<>> ELSE <<router.nodes[Min(m)].node>>

\* the destination of PDU ref lies in the subnet of network l
DestinationIn(ref, l) == InNetwork(pdus[ref].pduDestination[1], net[l].network)

\* the events of the last operation that concern PDU ref
EventsOf(ref) == {i \in 1..Len(trace) : trace[i].pdu = ref}

\* C11: when an adapter hands the router a PDU whose destination lies in the subnet of no
\* other adapter, the call raises nothing, forwards the PDU to no adapter and schedules
\* nothing; so every task that is not an application's own send is for a network whose
\* subnet holds the PDU's destination, and no node receives a PDU that is for no subnet.
C11_SilentDrop ==
    /\ lastOp.op = "process_pdu" =>
           \A i \in 1..Len(trace) :
               (trace[i].ev = "route" /\ Matching(node[trace[i].who].peer, trace[i].pdu) = {}) =>
                   /\ lastOp.result = "ok"
                   /\ \A j \in EventsOf(trace[i].pdu) : trace[j].ev \in {"response", "route"}
                   /\ ~Queued(trace[i].pdu)
    /\ \A i \in 1..Len(tasks) : tasks[i].pdu \notin appPdus => DestinationIn(tasks[i].pdu, tasks[i].lan)
    /\ \A n \in AppNodes : \A j \in 1..Len(recv[n]) :
           \E l \in DOMAIN net : net[l].nodes # <<>> /\ DestinationIn(recv[n][j], l)

\* X has sent to 10.0.9.9, which is in neither subnet; the adapter on net0, being
\* promiscuous, handed the PDU to the router, and nothing is left to run
C11_Witness ==
    /\ lastOp.op = "process_pdu"
    /\ lastOp.lan = "net0"
    /\ lastOp.result = "ok"
    /\ lastOp.arg.pduDestination = <<IP(10, 0, 9, 9), DefaultPort>>
    /\ \E i \in 1..Len(trace) : trace[i].ev = "route" /\ trace[i].who = "R0"
    /\ Len(dispatched) = 1
    /\ tasks = <<>>

-----------------------------------------------------------------------------
(* Properties of the node lists.                                           *)

\* the positions of node n in the node list of network l
Places(l, n) == {i \in 1..Len(net[l].nodes) : net[l].nodes[i] = n}

\* C12 as claimed: every node is in the node list of at most one network.
C12_OneNetwork ==
    \A n \in DOMAIN node : Cardinality({l \in DOMAIN net : Places(l, n) # {}}) <= 1

\* C13 as claimed: a node list holds no node twice, and the node added last is its last
\* entry.
C13_NoDuplicates ==
    /\ \A l \in DOMAIN net, n \in DOMAIN node : Cardinality(Places(l, n)) <= 1
    /\ (lastOp.op = "add_node" /\ lastOp.result = "ok") =>
           net[lastOp.lan].nodes[Len(net[lastOp.lan].nodes)] = lastOp.who

-----------------------------------------------------------------------------
(* Properties of the loss rate and of the traffic log.                     *)

\* the nodes of network l the addressing rules select for a PDU, in list order
Selected(l, pdu) ==
    LET Other(n) == node[n].address # pdu.pduSource
        Addressed(n) == node[n].promiscuous \/ node[n].address = pdu.pduDestination
    IN IF pdu.pduDestination = net[l].broadcast_address
       THEN SelectSeq(net[l].nodes, Other)
       ELSE SelectSeq(net[l].nodes, Addressed)

\* C15: a process_pdu on a network whose drop_percent is 100 drops the PDU whatever the
\* draw, so that no node of such a network ever receives anything; a process_pdu on a
\* network whose drop_percent is 0 never drops, and hands the PDU to every node the
\* addressing rules select.
C15_DropAllOrNone ==
    /\ lastOp.op = "process_pdu" =>
           /\ net[lastOp.lan].drop_percent = 100 =>
                  lastOp.result = "dropped" /\ Responded = <<>>
           /\ net[lastOp.lan].drop_percent = 0 =>
                  lastOp.result = "ok" /\ Responded = Selected(lastOp.lan, lastOp.arg)
    /\ \A n \in DOMAIN node :
           (node[n].lan # NoLan /\ net[node[n].lan].drop_percent = 100) => recv[n] = <<>>

\* a PDU from A to B was dispatched on the network of A, B and C, whose drop_percent is
\* 100: it was dropped
C15_Witness ==
    /\ lastOp.op = "process_pdu"
    /\ net[lastOp.lan].drop_percent = 100
    /\ net[lastOp.lan].nodes = <<"A", "B", "C">>
    /\ lastOp.arg.pduDestination = node["B"].address
    /\ lastOp.result = "dropped"
    /\ recv["B"] = <<>>

IsTrafficLog(e) == e.ev = "traffic_log"

\* C16: a process_pdu on a network with a traffic log calls the log once, with the
\* network's name and the PDU it was given, before anything else it does: the drop, when
\* the PDU is dropped, and every response() come after it.  Without a traffic log no
\* call is made.
C16_TrafficLogFirst ==
    lastOp.op = "process_pdu" =>
        IF net[lastOp.lan].traffic_log
        THEN /\ trace # <<>>
             /\ trace[1] = Event("traffic_log", net[lastOp.lan].name, lastOp.pdu)
             /\ Len(SelectSeq(trace, IsTrafficLog)) = 1
             /\ pdus[lastOp.pdu] = lastOp.arg
        ELSE SelectSeq(trace, IsTrafficLog) = <<>>

\* a PDU was logged and then dropped
C16_Witness ==
    /\ lastOp.op = "process_pdu"
    /\ net[lastOp.lan].traffic_log
    /\ lastOp.result = "dropped"
    /\ trace = <<Event("traffic_log", net[lastOp.lan].name, lastOp.pdu),
                 Event("dropped", lastOp.lan, lastOp.pdu)>>

-----------------------------------------------------------------------------
(* Properties of the IPv4Networks' node lists.                             *)

\* every node in the list of IPv4Network l has its address in the subnet of l
AllInSubnet(l) ==
    \A i \in 1..Len(net[l].nodes) : InNetwork(node[net[l].nodes[i]].address[1], net[l].network)

\* C17: an add_node on an IPv4Network, called directly, by bind or by the constructor of
\* a node, of a node whose address is outside the network's subnet fails with an error
\* and changes neither any node list nor any node; and at all times every node in an
\* IPv4Network's node list has its address in that network's subnet.
C17_SubnetMembership ==
    /\ [](\A l \in DOMAIN net : net[l].network # None => AllInSubnet(l))
    /\ [][(reconfs' = reconfs + 1 /\ lastOp'.op \in {"add_node", "Node"} /\ lastOp'.lan # NoLan) =>
             LET l == lastOp'.lan
                 addr == IF lastOp'.op = "Node" THEN lastOp'.arg ELSE node[lastOp'.who].address
             IN (net[l].network # None /\ ~InNetwork(addr[1], net[l].network)) =>
                    /\ lastOp'.result = "ValueError"
                    /\ net' = net
                    /\ node' = node]_vars

\* X, whose address 10.0.0.1 is on 10.0.0.0/24, was to be added to 10.0.1.0/24: the call
\* failed and X is where it was
C17_Witness ==
    /\ lastOp.op = "add_node"
    /\ lastOp.who = "X"
    /\ lastOp.lan = "net1"
    /\ lastOp.result = "ValueError"
    /\ node["X"].lan = "net0"
    /\ Places("net1", "X") = {}

-----------------------------------------------------------------------------
(* Addresses (pdu.py).  A text is a sequence of one-character strings, a   *)
(* byte string a sequence of numbers 0..255.  An attribute that may be     *)
(* None is a sequence of length 0 or 1: <<>> is None and <<x>> is x.  The  *)
(* texts are Python 2 str values over digits, letters and "*", ":", ".",   *)
(* "/", "'"; none of them has a "[" or five ":", which the IPv6 and the    *)
(* Ethernet pattern need.                                                  *)

Some(x) == <<x>>

DigitChars == <<"0", "1", "2", "3", "4", "5", "6", "7", "8", "9">>

LowerChars == <<"a", "b", "c", "d", "e", "f", "g", "h", "i", "j", "k", "l", "m",
                "n", "o", "p", "q", "r", "s", "t", "u", "v", "w", "x", "y", "z">>

UpperChars == <<"A", "B", "C", "D", "E", "F", "G", "H", "I", "J", "K", "L", "M",
                "N", "O", "P", "Q", "R", "S", "T", "U", "V", "W", "X", "Y", "Z">>

\* the position of c in the sequence s, 0 when it is not there
IndexOf(s, c) == IF \E i \in 1..Len(s) : s[i] = c THEN CHOOSE i \in 1..Len(s) : s[i] = c ELSE 0

\* \d
IsDigit(c) == IndexOf(DigitChars, c) # 0

DigitValue(c) == IndexOf(DigitChars, c) - 1

\* \w
IsWord(c) == IsDigit(c) \/ IndexOf(LowerChars, c) # 0 \/ IndexOf(UpperChars, c) # 0 \/ c = "_"

\* [0-9A-Fa-f]
IsHex(c) == IsDigit(c) \/ IndexOf(LowerChars, c) \in 1..6 \/ IndexOf(UpperChars, c) \in 1..6

HexValue(c) ==
    IF IsDigit(c) THEN DigitValue(c)
    ELSE IF IndexOf(LowerChars, c) # 0 THEN 9 + IndexOf(LowerChars, c)
    ELSE 9 + IndexOf(UpperChars, c)

\* ord(c)
Ord(c) ==
    IF IsDigit(c) THEN 48 + DigitValue(c)
    ELSE IF IndexOf(UpperChars, c) # 0 THEN 64 + IndexOf(UpperChars, c)
    ELSE IF IndexOf(LowerChars, c) # 0 THEN 96 + IndexOf(LowerChars, c)
    ELSE CASE c = "'" -> 39 [] c = "*" -> 42 [] c = "." -> 46 [] c = "/" -> 47
           [] c = ":" -> 58 [] c = "_" -> 95

\* re.match(r"^\d+$", s)
AllDigits(s) == s # <<>> /\ \A i \in 1..Len(s) : IsDigit(s[i])

RECURSIVE ParseInt(_)
\* int(s) for a text of digits
ParseInt(s) ==
    IF s = <<>> THEN 0
    ELSE ParseInt(SubSeq(s, 1, Len(s) - 1)) * 10 + DigitValue(s[Len(s)])

RECURSIVE IntStr(_)
\* str(n) for n >= 0
IntStr(n) ==
    IF n < 10 THEN <<DigitChars[n + 1]>>
    ELSE IntStr(n \div 10) \o <<DigitChars[(n % 10) + 1]>>

RECURSIVE Split(_, _)
\* s.split(c)
Split(s, c) ==
    IF \A i \in 1..Len(s) : s[i] # c THEN <<s>>
    ELSE LET i == Min({k \in 1..Len(s) : s[k] = c})
         IN <<SubSeq(s, 1, i - 1)>> \o Split(SubSeq(s, i + 1, Len(s)), c)

RECURSIVE Xtob(_)
\* xtob(s) for a text of hex digit pairs
Xtob(s) ==
    IF Len(s) < 2 THEN <<>>
    ELSE <<HexValue(s[1]) * 16 + HexValue(s[2])>> \o Xtob(SubSeq(s, 3, Len(s)))

HexChars == DigitChars \o SubSeq(LowerChars, 1, 6)

RECURSIVE Btox(_)
\* btox(b)
Btox(b) ==
    IF b = <<>> THEN <<>>
    ELSE <<HexChars[(b[1] \div 16) + 1], HexChars[(b[1] % 16) + 1]>> \o Btox(Tail(b))

\* the text of a Python literal, for the texts the source spells out
NullText == <<"N", "u", "l", "l">>

\* the class attributes of Address
nullAddr == 0

localBroadcastAddr == 1

localStationAddr == 2

remoteBroadcastAddr == 3

remoteStationAddr == 4

globalBroadcastAddr == 5

\* _short_mask + 1
ShortLimit == 65536

\* the limits of a one-byte address and of a network number
ByteLimit == 256

NetLimit == 65535

\* an Address object: its class, then its attributes
AddressObj(cls, type, nettype, netw, addr, len, port) ==
    [exc |-> "none", cls |-> cls, addrType |-> type, addrNetworkType |-> nettype,
     addrNet |-> netw, addrAddr |-> addr, addrLen |-> len, addrPort |-> port]

\* a call that raised exc and returned nothing
Failure(exc) ==
    [exc |-> exc, cls |-> "none", addrType |-> -1, addrNetworkType |-> "None",
     addrNet |-> None, addrAddr |-> None, addrLen |-> None, addrPort |-> None]

NullAddress == AddressObj("NullAddress", nullAddr, "None", None, Some(<<>>), Some(0), None)

\* LocalStation(addr), addr an int
LocalStationInt(addr) ==
    IF addr < 0 \/ addr >= ByteLimit THEN Failure("ValueError")
    ELSE AddressObj("LocalStation", localStationAddr, "None", None, Some(<<addr>>), Some(1), None)

\* LocalStation(addr), addr a bytearray
LocalStationBytes(addr) ==
    AddressObj("LocalStation", localStationAddr, "None", None, Some(addr), Some(Len(addr)), None)

LocalBroadcast == AddressObj("LocalBroadcast", localBroadcastAddr, "None", None, None, None, None)

\* RemoteStation(net, addr), addr an int
RemoteStationInt(netw, addr) ==
    IF netw < 0 \/ netw >= NetLimit THEN Failure("ValueError")
    ELSE IF addr < 0 \/ addr >= ByteLimit THEN Failure("ValueError")
    ELSE AddressObj("RemoteStation", remoteStationAddr, "None", Some(netw), Some(<<addr>>),
                    Some(1), None)

\* RemoteStation(net, addr), addr a bytearray
RemoteStationBytes(netw, addr) ==
    IF netw < 0 \/ netw >= NetLimit THEN Failure("ValueError")
    ELSE AddressObj("RemoteStation", remoteStationAddr, "None", Some(netw), Some(addr),
                    Some(Len(addr)), None)

RemoteBroadcast(netw) ==
    IF netw < 0 \/ netw >= NetLimit THEN Failure("ValueError")
    ELSE AddressObj("RemoteBroadcast", remoteBroadcastAddr, "None", Some(netw), None, None, None)

GlobalBroadcast == AddressObj("GlobalBroadcast", globalBroadcastAddr, "None", None, None, None, None)

\* ARCNETAddress(addr), addr an int in 0..255 or a bytearray
ARCNETAddressInt(addr) ==
    AddressObj("ARCNETAddress", localStationAddr, "arcnet", None, Some(<<addr>>), Some(1), None)

ARCNETAddressBytes(addr) ==
    AddressObj("ARCNETAddress", localStationAddr, "arcnet", None, Some(addr), Some(1), None)

\* self.packed of an IPv4Interface
Packed(ip) == <<ip \div 16777216, (ip \div 65536) % 256, (ip \div 256) % 256, ip % 256>>

\* struct.pack('!H', port & _short_mask)
PortBytes(port) == <<(port % ShortLimit) \div 256, port % 256>>

\* the end of IPv4Address.__init__: the attributes, from the interface's ip and the port
IPv4AddressObj(type, netw, ip, port) ==
    AddressObj("IPv4Address", type, "ipv4", netw, Some(Packed(ip) \o PortBytes(port)),
               Some(6), Some(port))

\* a.b.c.d or a.b.c.d/n, as the regular expression has it: \d+\.\d+\.\d+\.\d+(?:/\d+)?
DottedForm(s) ==
    LET q == Split(s, "/")
        o == Split(q[1], ".")
    IN /\ Len(q) \in {1, 2}
       /\ Len(q) = 2 => AllDigits(q[2])
       /\ Len(o) = 4
       /\ \A k \in 1..4 : AllDigits(o[k])

\* ipv4_net_addr_port_re.match(s): whether it matches, and the groups _net, addr, _port
IPv4Match(s) ==
    LET p == Split(s, ":")
        no == [ok |-> FALSE, netw |-> <<>>, addr |-> <<>>, port |-> <<>>]
    IN IF Len(p) = 1 /\ DottedForm(p[1])
       THEN [ok |-> TRUE, netw |-> <<>>, addr |-> p[1], port |-> <<>>]
       ELSE IF Len(p) = 2 /\ AllDigits(p[1]) /\ DottedForm(p[2])
       THEN [ok |-> TRUE, netw |-> p[1], addr |-> p[2], port |-> <<>>]
       ELSE IF Len(p) = 2 /\ DottedForm(p[1]) /\ AllDigits(p[2])
       THEN [ok |-> TRUE, netw |-> <<>>, addr |-> p[1], port |-> p[2]]
       ELSE IF Len(p) = 3 /\ AllDigits(p[1]) /\ DottedForm(p[2]) /\ AllDigits(p[3])
       THEN [ok |-> TRUE, netw |-> p[1], addr |-> p[2], port |-> p[3]]
       ELSE no

\* ipaddress.IPv4Interface(s) of a.b.c.d or a.b.c.d/n without leading zeros: whether it
\* is accepted, and its ip
Interface(s) ==
    LET q == Split(s, "/")
        o == Split(q[1], ".")
    IN [ok |-> /\ \A k \in 1..4 : Len(o[k]) <= 3 /\ ParseInt(o[k]) <= 255
               /\ Len(q) = 2 => ParseInt(q[2]) <= 32,
        ip |-> IP(ParseInt(o[1]), ParseInt(o[2]), ParseInt(o[3]), ParseInt(o[4]))]

\* interface_port_re.match(s): ^(\w+)(?::(\d+))?$
InterfaceMatch(s) ==
    LET p == Split(s, ":")
    IN [ok |-> /\ Len(p) \in {1, 2}
               /\ p[1] # <<>>
               /\ \A i \in 1..Len(p[1]) : IsWord(p[1][i])
               /\ Len(p) = 2 => AllDigits(p[2]),
        port |-> IF Len(p) = 2 THEN p[2] ELSE <<>>]

\* what the host answers to a lookup of an interface name: no netifaces module, no such
\* interface, an interface with no, with one or with two IPv4 addresses
Lookups == {"unavailable", "unknown", "none", "one", "many"}

\* the (first) address of the interface looked up, 10.0.0.10
LookupAddress == IP(10, 0, 0, 10)

\* IPv4Address(addr), addr a text and port the default
IPv4AddressText(s, lookup) ==
    LET m == IPv4Match(s)
        i == InterfaceMatch(s)
    IN IF m.ok
       THEN IF ~Interface(m.addr).ok THEN Failure("ValueError")
            ELSE IPv4AddressObj(
                     IF m.netw # <<>> THEN remoteStationAddr ELSE localStationAddr,
                     IF m.netw # <<>> THEN Some(ParseInt(m.netw)) ELSE None,
                     Interface(m.addr).ip,
                     IF m.port # <<>> THEN ParseInt(m.port) ELSE DefaultPort)
       ELSE IF i.ok
       THEN CASE lookup = "unavailable" -> Failure("RuntimeError")
              [] lookup = "unknown" -> Failure("ValueError")
              [] lookup = "none" -> Failure("TypeError")
              [] OTHER -> IPv4AddressObj(localStationAddr, None, LookupAddress,
                                         IF i.port # <<>> THEN ParseInt(i.port) ELSE DefaultPort)
       ELSE IF Len(s) = 6
       THEN IPv4AddressObj(localStationAddr, None,
                           IP(Ord(s[1]), Ord(s[2]), Ord(s[3]), Ord(s[4])),
                           Ord(s[5]) * 256 + Ord(s[6]))
       ELSE Failure("ValueError")

\* IPv4Address(addr), addr an int
IPv4AddressInt(n) == IPv4AddressObj(localStationAddr, None, n, DefaultPort)

\* IPv4Address(addr, port=port), addr the text of a dotted quad
IPv4AddressTuple(ip, port) == IPv4AddressObj(localStationAddr, None, ip, port)

\* re.match(r"^0x([0-9A-Fa-f][0-9A-Fa-f])+$", s)
ModernHex(s) ==
    /\ Len(s) >= 4 /\ Len(s) % 2 = 0
    /\ s[1] = "0" /\ s[2] = "x"
    /\ \A i \in 3..Len(s) : IsHex(s[i])

\* re.match(r"^X'([0-9A-Fa-f][0-9A-Fa-f])+'$", s)
OldHex(s) ==
    /\ Len(s) >= 5 /\ Len(s) % 2 = 1
    /\ s[1] = "X" /\ s[2] = "'" /\ s[Len(s)] = "'"
    /\ \A i \in 3..(Len(s) - 1) : IsHex(s[i])

\* IPv6Address(addr), addr a bytearray of 18: the 16 bytes of the interface, then the port
IPv6AddressBytes(b) ==
    AddressObj("IPv6Address", localStationAddr, "ipv6", None,
               Some(SubSeq(b, 1, 16) \o PortBytes(b[17] * 256 + b[18])), Some(6),
               Some(b[17] * 256 + b[18]))

\* Address(addr) for addr a bytearray
AddressBytes(b) ==
    IF Len(b) = 1 THEN ARCNETAddressBytes(b)
    ELSE IF Len(b) = 6
    THEN IPv4AddressObj(localStationAddr, None, IP(b[1], b[2], b[3], b[4]), b[5] * 256 + b[6])
    ELSE IF Len(b) = 18 THEN IPv6AddressBytes(b)
    ELSE Failure("ValueError")

\* Address(addr) for addr a str: AddressMetaclass.__call__, the rules in their order; a
\* str that matches no pattern is then taken as bytes
AddressText(s, lookup) ==
    LET p == Split(s, ":")
    IN IF s = <<"*">> THEN LocalBroadcast
       ELSE IF s = <<"*", ":", "*">> THEN GlobalBroadcast
       ELSE IF AllDigits(s) THEN LocalStationInt(ParseInt(s))
       ELSE IF Len(p) = 2 /\ AllDigits(p[1]) /\ p[2] = <<"*">>
       THEN RemoteBroadcast(ParseInt(SubSeq(s, 1, Len(s) - 2)))
       ELSE IF Len(p) = 2 /\ AllDigits(p[1]) /\ AllDigits(p[2])
       THEN RemoteStationInt(ParseInt(p[1]), ParseInt(p[2]))
       ELSE IF ModernHex(s) THEN LocalStationBytes(Xtob(SubSeq(s, 3, Len(s))))
       ELSE IF OldHex(s) THEN LocalStationBytes(Xtob(SubSeq(s, 3, Len(s) - 1)))
       ELSE IF Len(p) = 2 /\ AllDigits(p[1]) /\ ModernHex(p[2])
       THEN RemoteStationBytes(ParseInt(p[1]), Xtob(SubSeq(p[2], 3, Len(p[2]))))
       ELSE IF Len(p) = 2 /\ AllDigits(p[1]) /\ OldHex(p[2])
       THEN RemoteStationBytes(ParseInt(p[1]), Xtob(SubSeq(p[2], 3, Len(p[2]) - 1)))
       ELSE IF IPv4Match(s).ok THEN IPv4AddressText(s, lookup)
       ELSE IF InterfaceMatch(s).ok THEN IPv4AddressText(s, lookup)
       ELSE IF s = <<>> THEN Failure("ValueError")
       ELSE AddressBytes([i \in 1..Len(s) |-> Ord(s[i])])

\* Address(addr) for addr an int below 2^31, which is below _long_mask
AddressInt(n) ==
    IF n < 0 THEN Failure("ValueError")
    ELSE IF n < ByteLimit THEN ARCNETAddressInt(n)
    ELSE IPv4AddressInt(n)

\* Address((addr, port)) for addr the text of an IPv4 address
AddressTuple(ip, port) == IPv4AddressTuple(ip, port)

\* socket.inet_ntoa(b) and ip.compressed: the dotted quad of four bytes
Dotted(b) ==
    IntStr(b[1]) \o <<".">> \o IntStr(b[2]) \o <<".">> \o IntStr(b[3]) \o <<".">> \o IntStr(b[4])

\* the address part of LocalStation.__str__ and RemoteStation.__str__
StationStr(a) ==
    LET b == a.addrAddr[1]
        port == b[5] * 256 + b[6]
    IN IF a.addrLen = Some(1) THEN IntStr(b[1])
       ELSE IF a.addrLen = Some(6) /\ port >= 47808 /\ port <= 47810
       THEN Dotted(b) \o (IF port # 47808 THEN <<":">> \o IntStr(port) ELSE <<>>)
       ELSE <<"0", "x">> \o Btox(b)

\* str(self.addrNet) + ':' if self.addrNet else ''
PrefixIfNet(a) ==
    IF a.addrNet # None /\ a.addrNet[1] # 0 THEN IntStr(a.addrNet[1]) \o <<":">> ELSE <<>>

\* a station's prefix written as IPv4Address.__str__ writes its own
PrefixAsIPv4(a) == PrefixIfNet(a)

\* str(self.addrNet) + ':'
Prefix(a) == IntStr(a.addrNet[1]) \o <<":">>

\* str(a): the __str__ of a's class; that of an IPv6Address is not modelled
AddressStr(a) ==
    CASE a.cls = "NullAddress" -> NullText
      [] a.cls = "LocalStation" -> StationStr(a)
      [] a.cls = "LocalBroadcast" -> <<"*">>
      [] a.cls = "RemoteStation" -> Prefix(a) \o StationStr(a)
      [] a.cls = "RemoteBroadcast" -> Prefix(a) \o <<"*">>
      [] a.cls = "GlobalBroadcast" -> <<"*", ":", "*">>
      [] a.cls = "ARCNETAddress" -> PrefixIfNet(a) \o IntStr(a.addrAddr[1][1])
      [] a.cls = "IPv4Address" ->
             PrefixIfNet(a) \o Dotted(a.addrAddr[1])
                 \o (IF a.addrPort # Some(DefaultPort) THEN <<":">> \o IntStr(a.addrPort[1]) ELSE <<>>)

\* Address.__eq__ that also wants the two of one class
AddressEqSameClass(a, b) ==
    a.cls = b.cls /\ a.addrType = b.addrType /\ a.addrNet = b.addrNet /\ a.addrAddr = b.addrAddr

\* Address.__eq__(a, b), b an Address
AddressEq(a, b) == a.addrType = b.addrType /\ a.addrNet = b.addrNet /\ a.addrAddr = b.addrAddr

\* Address.__hash__: the hash of a tuple is a function of the tuple
AddressHash(a) == <<a.addrType, a.addrNet, a.addrAddr>>

-----------------------------------------------------------------------------
(* The calls of Address(...), str() and ==, as steps.                      *)

lanvars == <<net, node, router, tasks, pdus, recv, lastOp, trace, sends,
             submitted, dispatched, reconfs, mutations>>

\* what was passed to Address(...): nothing, an int, a (host, port) tuple, a bytearray
\* (the hex digits of its bytes in the text field) or a text; for a text the form it was written in, with
\* the network number and the number it spells
Input(kind, form, text, netw, n) ==
    [kind |-> kind, form |-> form, text |-> text, netw |-> netw, n |-> n]

Made(in, value, of) == [input |-> in, value |-> value, from |-> of]

\* the state with no LAN
InitAddress ==
    /\ net = [l \in {} |-> 0]
    /\ node = [n \in {} |-> 0]
    /\ router = [nodes |-> <<>>]
    /\ tasks = <<>>
    /\ pdus = <<>>
    /\ recv = [n \in {} |-> <<>>]
    /\ lastOp = Op("init", "", NoLan, 0, 0, None, "ok")
    /\ trace = <<>>
    /\ sends = <<>>
    /\ submitted = 0
    /\ dispatched = <<>>
    /\ reconfs = 0
    /\ mutations = 0
    /\ made = <<>>
    /\ said = NoEnquiry
    /\ resolved = <<>>
    /\ tagset = <<>>

\* Address(...), one of at most max calls
Call(in, lookup, max) ==
    /\ Len(made) < max
    /\ made' = Append(made, Made(in,
                   CASE in.kind = "none" -> NullAddress
                     [] in.kind = "int" -> AddressInt(in.n)
                     [] in.kind = "tuple" -> AddressTuple(in.netw, in.n)
                     [] in.kind = "bytes" -> AddressBytes(Xtob(in.text))
                     [] in.kind = "text" -> AddressText(in.text, lookup),
                   0))
    /\ said' = NoEnquiry
    /\ UNCHANGED <<lanvars, resolved, tagset>>

\* str(made[i])
AskStr(i) ==
    /\ made[i].value.exc = "none"
    /\ said' = Enquiry("str", i, 0, AddressStr(made[i].value), FALSE, <<>>)
    /\ UNCHANGED <<lanvars, made, resolved, tagset>>

\* Address(str(made[i])), once for an address that was not itself made this way
RoundTrip(i, lookup) ==
    /\ made[i].value.exc = "none"
    /\ made[i].from = 0
    /\ \A j \in 1..Len(made) : made[j].from # i
    /\ LET text == AddressStr(made[i].value)
       IN /\ made' = Append(made, Made(Input("text", "display", text, -1, -1),
                                        AddressText(text, lookup), i))
          /\ said' = Enquiry("str", i, 0, text, FALSE, <<>>)
    /\ UNCHANGED <<lanvars, resolved, tagset>>

\* made[i] == made[j], hash(made[i]) and hash(made[j])
Compare(i, j) ==
    /\ made[i].value.exc = "none"
    /\ made[j].value.exc = "none"
    /\ said' = Enquiry("eq", i, j, <<>>, AddressEq(made[i].value, made[j].value),
                       <<AddressHash(made[i].value), AddressHash(made[j].value)>>)
    /\ UNCHANGED <<lanvars, made, resolved, tagset>>

\* the lookup of an interface name is made only for a text that is taken as one
NeedsLookup(s) == AddressText(s, "unavailable") # AddressText(s, "one")

-----------------------------------------------------------------------------
(* The text forms of stations and broadcasts.                              *)

\* the network numbers and station numbers written into texts: the ends of the ranges
Nets == {0, 5, NetLimit - 1, NetLimit}

Stations == {0, 10, ByteLimit - 1, ByteLimit}

StationInputs ==
    {Input("text", "station", IntStr(n), -1, n) : n \in 0..MaxDecimal}
        \cup {Input("text", "station", <<"0", "0">> \o IntStr(n), -1, n) : n \in {7, ByteLimit - 1}}

BroadcastInputs ==
    {Input("text", "local broadcast", <<"*">>, -1, -1),
     Input("text", "global broadcast", <<"*", ":", "*">>, -1, -1)}

RemoteInputs ==
    {Input("text", "remote broadcast", IntStr(nw) \o <<":", "*">>, nw, -1) : nw \in Nets}
        \cup {Input("text", "remote station", IntStr(nw) \o <<":">> \o IntStr(n), nw, n) :
                  nw \in Nets, n \in Stations}

ParseForm == \E in \in StationInputs \cup BroadcastInputs \cup RemoteInputs :
                 Call(in, "unavailable", MaxTextCalls)

Display == \E i \in 1..Len(made) : AskStr(i)

NextText == ParseForm \/ Display

SpecText == InitAddress /\ [][NextText]_vars

\* an address of the given kind, network number and bytes
Is(a, type, netw, addr) ==
    a.exc = "none" /\ a.addrType = type /\ a.addrNet = netw /\ a.addrAddr = addr

\* C18: Address(text) is the local broadcast for "*", the global broadcast for "*:*", the
\* local station n for the digits of n <= 255, the remote broadcast of net for "<net>:*"
\* and the remote station n of net for "<net>:<n>" (net < 65535, n <= 255); and str() of
\* these is "*", "*:*", str(n), "<net>:*" and "<net>:<n>".
C18_TextForms ==
    /\ \A i \in 1..Len(made) :
           LET in == made[i].input
               v == made[i].value
           IN /\ in.form = "local broadcast" => Is(v, localBroadcastAddr, None, None)
              /\ in.form = "global broadcast" => Is(v, globalBroadcastAddr, None, None)
              /\ (in.form = "station" /\ in.n <= 255) =>
                     Is(v, localStationAddr, None, Some(<<in.n>>))
              /\ (in.form = "remote broadcast" /\ in.netw < 65535) =>
                     Is(v, remoteBroadcastAddr, Some(in.netw), None)
              /\ (in.form = "remote station" /\ in.netw < 65535 /\ in.n <= 255) =>
                     Is(v, remoteStationAddr, Some(in.netw), Some(<<in.n>>))
    /\ said.op = "str" =>
           LET in == made[said.on].input
           IN /\ in.form = "local broadcast" => said.text = <<"*">>
              /\ in.form = "global broadcast" => said.text = <<"*", ":", "*">>
              /\ in.form = "station" => said.text = IntStr(in.n)
              /\ in.form = "remote broadcast" => said.text = IntStr(in.netw) \o <<":", "*">>
              /\ in.form = "remote station" =>
                     said.text = IntStr(in.netw) \o <<":">> \o IntStr(in.n)
              /\ in.text = <<"0", "0", "7">> => said.text = <<"7">>
              /\ in.text = <<"2", "5", "5">> => said.text = <<"2", "5", "5">>
              /\ in.text = <<"0", ":", "1", "0">> => said.text = <<"0", ":", "1", "0">>
              /\ in.text = <<"6", "5", "5", "3", "4", ":", "*">> => said.text = in.text

\* "5:10" was parsed to the remote station 10 of network 5, and str() of it is "5:10"
C18_Witness ==
    /\ Len(made) = 1
    /\ made[1].input.text = <<"5", ":", "1", "0">>
    /\ Is(made[1].value, remoteStationAddr, Some(5), Some(<<10>>))
    /\ said.op = "str"
    /\ said.text = <<"5", ":", "1", "0">>

-----------------------------------------------------------------------------
(* Equality and hashing.                                                   *)

\* 1.2.3.4, and the six bytes of 1.2.3.4 with port 47811 as a hex text
SomeIP == IP(1, 2, 3, 4)

SomeHexText == <<"0", "x", "0", "1", "0", "2", "0", "3", "0", "4", "b", "a", "c", "3">>

EqualityInputs ==
    {Input("none", "", <<>>, -1, -1),
     Input("int", "", <<>>, -1, 10),
     Input("int", "", <<>>, -1, 300),
     Input("tuple", "", <<>>, SomeIP, 47811),
     Input("text", "station", <<"1", "0">>, -1, 10),
     Input("text", "remote station", <<"5", ":", "1", "0">>, 5, 10),
     Input("text", "local broadcast", <<"*">>, -1, -1),
     Input("text", "remote broadcast", <<"5", ":", "*">>, 5, -1),
     Input("text", "ipv4", <<"0", ".", "0", ".", "1", ".", "4", "4">>, -1, -1),
     Input("text", "ipv4", Dotted(Packed(SomeIP)) \o <<":">> \o IntStr(47811), -1, -1),
     Input("text", "hex", SomeHexText, -1, -1)}

CallAny == \E in \in EqualityInputs : Call(in, "unavailable", MaxAddressCalls)

AskEqual == \E i \in 1..Len(made), j \in 1..Len(made) : Compare(i, j)

NextEquality == CallAny \/ AskEqual

SpecEquality == InitAddress /\ [][NextEquality]_vars

\* C19: a == b is true exactly when a and b have the same addrType, the same addrNet and
\* the same addrAddr, whatever their classes, network types and display strings:
\* Address(10) == Address("10"); and when a == b, hash(a) == hash(b).
C19_EqualityOnTriple ==
    said.op = "eq" =>
        LET a == made[said.on]
            b == made[said.other]
        IN /\ said.equal <=> (/\ a.value.addrType = b.value.addrType
                               /\ a.value.addrNet = b.value.addrNet
                               /\ a.value.addrAddr = b.value.addrAddr)
           /\ said.equal => said.hashes[1] = said.hashes[2]
           /\ (a.input = Input("int", "", <<>>, -1, 10) /\ b.input.text = <<"1", "0">>) =>
                  said.equal
           /\ (a.input.kind = "tuple" /\ b.input.text = SomeHexText) => said.equal

\* Address(10), an ARCNETAddress, was compared with Address("10"), a LocalStation: they
\* are equal and have the same hash
C19_Witness ==
    /\ said.op = "eq"
    /\ made[said.on].input = Input("int", "", <<>>, -1, 10)
    /\ made[said.other].input.text = <<"1", "0">>
    /\ made[said.on].value.cls # made[said.other].value.cls
    /\ made[said.on].value.addrNetworkType # made[said.other].value.addrNetworkType
    /\ said.equal
    /\ said.hashes[1] = said.hashes[2]

-----------------------------------------------------------------------------
(* The round trip through str().                                           *)

\* the IPv4 texts [net:]a.b.c.d[:port]
IPv4Texts ==
    {(IF nw = -1 THEN <<>> ELSE IntStr(nw) \o <<":">>) \o Dotted(Packed(ip))
         \o (IF port = -1 THEN <<>> ELSE <<":">> \o IntStr(port)) :
        nw \in {-1, 0, 5}, ip \in {SomeIP, IP(10, 0, 0, 1), IP(10, 0, 1, 255), IP(127, 0, 0, 1)},
        port \in {-1, 1, 47808, 47809}}

RoundTripInputs ==
    {Input("none", "", <<>>, -1, -1),
     Input("int", "", <<>>, -1, 10),
     Input("int", "", <<>>, -1, 300),
     Input("tuple", "", <<>>, SomeIP, 47811),
     Input("text", "local broadcast", <<"*">>, -1, -1),
     Input("text", "global broadcast", <<"*", ":", "*">>, -1, -1)}
        \cup {Input("text", "station", IntStr(n), -1, n) : n \in {0, 10, ByteLimit - 1}}
        \cup {Input("text", "remote broadcast", IntStr(nw) \o <<":", "*">>, nw, -1) : nw \in {0, 5}}
        \cup {Input("text", "remote station", IntStr(nw) \o <<":">> \o IntStr(n), nw, n) :
                  nw \in {0, 5}, n \in {0, 10}}
        \cup {Input("text", "ipv4", t, -1, -1) : t \in IPv4Texts}

CallVariant == \E in \in RoundTripInputs : Call(in, "unavailable", MaxRoundTripCalls)

Reparse ==
    \E i \in 1..Len(made), lookup \in Lookups :
        /\ made[i].value.exc = "none"
        /\ lookup # "unavailable" => NeedsLookup(AddressStr(made[i].value))
        /\ RoundTrip(i, lookup)

NextRoundTrip == CallVariant \/ Reparse

SpecRoundTrip == InitAddress /\ [][NextRoundTrip]_vars

\* C20 as claimed: Address(str(a)) returns an address equal to a, for every a that was
\* not made from the name of an interface and whose str() is not a hex text.
C20_RoundTrip ==
    \A i \in 1..Len(made) :
        (/\ made[i].from # 0
         /\ made[made[i].from].input.form # "interface"
         /\ SubSeq(made[i].input.text, 1, 2) # <<"0", "x">>) =>
            /\ made[i].value.exc = "none"
            /\ AddressEq(made[i].value, made[made[i].from].value)

-----------------------------------------------------------------------------
(* The ranges of the network number and of the port.                       *)

\* the network numbers and ports written into the arguments: in range, at the limit and
\* above it
RangeNets == {5, NetLimit - 1, NetLimit, 70000}

RangePorts == {DefaultPort, ShortLimit - 1, ShortLimit, 70000}

RangeInputs ==
    {Input("text", "remote station", IntStr(nw) \o <<":", "1", "0">>, nw, 10) : nw \in RangeNets}
        \cup {Input("text", "remote broadcast", IntStr(nw) \o <<":", "*">>, nw, -1) :
                  nw \in RangeNets}
        \cup {Input("text", "remote hex", IntStr(nw) \o <<":", "0", "x", "0", "1">>, nw, 1) :
                  nw \in RangeNets}
        \cup {Input("text", "ipv4 net", IntStr(nw) \o <<":">> \o Dotted(Packed(SomeIP)), nw, -1) :
                  nw \in RangeNets}
        \cup {Input("text", "ipv4 port", Dotted(Packed(SomeIP)) \o <<":">> \o IntStr(p), -1, p) :
                  p \in RangePorts}
        \cup {Input("tuple", "", <<>>, SomeIP, p) : p \in RangePorts}

CallRange == \E in \in RangeInputs : Call(in, "unavailable", MaxRangeCalls)

DisplayRange == \E i \in 1..Len(made) : AskStr(i)

NextRange == CallRange \/ DisplayRange

SpecRange == InitAddress /\ [][NextRange]_vars

\* C21 as claimed: every Address that was constructed has no network number or one in
\* 0..65534, and no port or one in 0..65535.
C21_FieldRanges ==
    \A i \in 1..Len(made) :
        made[i].value.exc = "none" =>
            /\ made[i].value.addrNet = None \/ made[i].value.addrNet[1] \in 0..65534
            /\ made[i].value.addrPort = None \/ made[i].value.addrPort[1] \in 0..65535

-----------------------------------------------------------------------------
(* The raw bytes of a station and their recorded length.                   *)

\* byte sequences of 0, 1, 3, 6 and 18 bytes
ByteStrings ==
    {<<>>, <<10>>, <<1, 2, 3>>, <<1, 2, 3, 4, 186, 192>>,
     <<32, 1, 13, 184, 0, 0, 0, 0, 0, 0, 0, 0, 0, 0, 0, 1, 186, 192>>}

\* the hex text 0x... of a byte sequence
HexText(b) == <<"0", "x">> \o Btox(b)

LengthInputs ==
    {Input("bytes", "", Btox(b), -1, Len(b)) : b \in ByteStrings}
        \cup {Input("text", "hex", HexText(b), -1, Len(b)) : b \in ByteStrings \ {<<>>}}
        \cup {Input("text", "hex", <<"0", "x", "0", "1", "0", "2">>, -1, 2),
              Input("text", "remote hex", <<"5", ":", "0", "x", "0", "1", "0", "2">>, 5, 2),
              Input("text", "remote station", <<"5", ":", "1", "0">>, 5, 10),
              Input("text", "station", <<"1", "0">>, -1, 10),
              Input("text", "ipv4", Dotted(Packed(SomeIP)), -1, -1),
              Input("int", "", <<>>, -1, 10),
              Input("int", "", <<>>, -1, 300),
              Input("tuple", "", <<>>, SomeIP, DefaultPort)}

CallLength == \E in \in LengthInputs : Call(in, "unavailable", MaxLengthCalls)

NextLength == CallLength

SpecLength == InitAddress /\ [][NextLength]_vars

\* the number of raw bytes of a technology
TechnologyLength(nettype) ==
    CASE nettype = "arcnet" -> {1}
      [] nettype = "ipv4" -> {6}
      [] nettype = "ipv6" -> {18}
      [] OTHER -> {1, 6, 18}

\* C22 as claimed: a constructed local or remote station has 1, 6 or 18 raw bytes, as
\* many as its technology has, and its addrLen is the number of its raw bytes.
C22_RawLength ==
    \A i \in 1..Len(made) :
        LET a == made[i].value
        IN (a.exc = "none" /\ a.addrType \in {localStationAddr, remoteStationAddr}) =>
               /\ Len(a.addrAddr[1]) \in TechnologyLength(a.addrNetworkType)
               /\ a.addrLen = Some(Len(a.addrAddr[1]))

-----------------------------------------------------------------------------
(* Arguments that spell no address.                                        *)

\* the empty text, texts of digits above 255, hex texts with an odd number of digits,
\* bytearrays of 0, 2 and 3 bytes; next to them some arguments that do spell one
InvalidInputs ==
    {Input("text", "invalid", <<>>, -1, -1),
     Input("text", "invalid", <<"2", "5", "6">>, -1, 256),
     Input("text", "invalid", <<"9", "9", "9">>, -1, 999),
     Input("text", "invalid", <<"0", "x", "1">>, -1, -1),
     Input("text", "invalid", <<"0", "x", "1", "2", "3">>, -1, -1),
     Input("text", "invalid", <<"X", "'", "1", "'">>, -1, -1),
     Input("text", "invalid", <<"X", "'", "1", "2", "3", "'">>, -1, -1),
     Input("bytes", "invalid", <<>>, -1, 0),
     Input("bytes", "invalid", <<"0", "1", "0", "2">>, -1, 2),
     Input("bytes", "invalid", <<"0", "1", "0", "2", "0", "3">>, -1, 3),
     Input("text", "station", <<"2", "5", "5">>, -1, 255),
     Input("text", "hex", <<"0", "x", "1", "2">>, -1, 1),
     Input("text", "hex", <<"X", "'", "1", "2", "'">>, -1, 1),
     Input("bytes", "", <<"0", "1">>, -1, 1)}

CallInvalid ==
    \E in \in InvalidInputs, lookup \in Lookups :
        /\ lookup # "unavailable" => (in.kind = "text" /\ NeedsLookup(in.text))
        /\ Call(in, lookup, MaxInvalidCalls)

NextInvalid == CallInvalid

SpecInvalid == InitAddress /\ [][NextInvalid]_vars

\* C23 as claimed: Address(...) of the empty text, of digits that spell more than 255,
\* of a hex text with an odd number of digits, or of a bytearray whose length is not 1,
\* 6 or 18 raises ValueError and returns no Address.
C23_InvalidRejected ==
    \A i \in 1..Len(made) :
        made[i].input.form = "invalid" => made[i].value.exc = "ValueError"

-----------------------------------------------------------------------------
(* Addresses from the name of an interface.                                *)

\* names of interfaces, bare and with a port
InterfaceNames ==
    {<<"l", "o">>, <<"e", "t", "h", "0">>, <<"e", "t", "h", "0", ":", "4", "7", "8", "0", "9">>}

\* Address(name); the form field holds what the host answers to the lookup of the name
InterfaceInputs == {Input("text", lookup, s, -1, -1) : lookup \in Lookups, s \in InterfaceNames}

CallInterface == \E in \in InterfaceInputs : Call(in, in.form, MaxInterfaceCalls)

DisplayInterface == \E i \in 1..Len(made) : AskStr(i)

NextInterface == CallInterface \/ DisplayInterface

SpecInterface == InitAddress /\ [][NextInterface]_vars

\* C24 as claimed: Address(name) raises when the lookup is not available, when the
\* interface has no IPv4 address and when it has more than one; it returns an address
\* only when the interface has exactly one.
C24_InterfaceLookup ==
    \A i \in 1..Len(made) :
        /\ made[i].input.form \in {"unavailable", "none", "many"} => made[i].value.exc # "none"
        /\ made[i].value.exc = "none" => made[i].input.form = "one"

-----------------------------------------------------------------------------
(* IRI.resolve (local/object.py).  An IRI is its five components; the path *)
(* is a text, the others are None or a name.                               *)

IRIObj(scheme, authority, path, query, fragment) ==
    [scheme |-> scheme, authority |-> authority, path |-> path, query |-> query,
     fragment |-> fragment]

RECURSIVE Join(_, _)
\* c.join(segs)
Join(segs, c) ==
    IF segs = <<>> THEN <<>>
    ELSE IF Len(segs) = 1 THEN segs[1]
    ELSE segs[1] \o <<c>> \o Join(Tail(segs), c)

\* s.rfind(c) + 1: the position of the last c in s, 0 when there is none
RFind(s, c) ==
    IF \E i \in 1..Len(s) : s[i] = c
    THEN CHOOSE i \in 1..Len(s) : s[i] = c /\ \A j \in (i + 1)..Len(s) : s[j] # c
    ELSE 0

RECURSIVE DotLoop(_, _)
\* the while loop of IRI.remove_dot_segments
DotLoop(input, output) ==
    IF input = <<>> THEN output
    ELSE LET next == Head(input)
             rest == Tail(input)
             done == rest = <<>>
             popped == IF output # <<>> THEN SubSeq(output, 1, Len(output) - 1) ELSE output
         IN IF next = <<".">>
            THEN DotLoop(rest, IF done THEN Append(output, <<>>) ELSE output)
            ELSE IF next = <<".", ".">>
            THEN DotLoop(rest, IF done THEN Append(popped, <<>>) ELSE popped)
            ELSE DotLoop(rest, Append(output, next))

\* IRI.remove_dot_segments: self.path afterwards
RemoveDotSegments(path) ==
    IF Len(path) = 0 THEN path
    ELSE LET looped == DotLoop(Split(path, "/"), <<>>)
             output == IF Len(looped) > 0 /\ looped[1] # <<>> THEN <<<<>>>> \o looped ELSE looped
         IN IF Len(output) = 1 /\ output[1] = <<>>
            THEN path
            ELSE Join(output, "/")

\* base.resolve(iri), iri an IRI
Resolve(base, iri) ==
    IF iri.scheme # None /\ iri.scheme # Some("") /\ iri.scheme # base.scheme
    THEN IRIObj(iri.scheme, iri.authority, iri.path, iri.query, iri.fragment)
    ELSE IF iri.authority # None
    THEN IRIObj(base.scheme, iri.authority,
                IF iri.path # <<>> THEN RemoveDotSegments(iri.path) ELSE iri.path,
                iri.query, iri.fragment)
    ELSE IF iri.path = <<>>
    THEN IRIObj(base.scheme, base.authority,
                IF base.path # <<>> THEN RemoveDotSegments(base.path) ELSE base.path,
                IF iri.query # None THEN iri.query ELSE base.query, iri.fragment)
    ELSE IF iri.path[1] = "/"
    THEN IRIObj(base.scheme, base.authority, RemoveDotSegments(iri.path), iri.query,
                iri.fragment)
    ELSE LET cut == SubSeq(base.path, 1, RFind(base.path, "/"))
             dir == IF Len(cut) > 0 /\ cut[Len(cut)] # "/" THEN cut \o <<"/">> ELSE cut
         IN IRIObj(base.scheme, base.authority, RemoveDotSegments(dir \o iri.path),
                   iri.query, iri.fragment)

\* the segments a path is written with
Segments == {<<>>, <<".">>, <<".", ".">>, <<"g">>}

\* the paths of up to MaxSegments segments
RefPaths == {Join(segs, "/") : segs \in UNION {[1..n -> Segments] : n \in 0..MaxSegments}}

\* the references: g:..., http:..., //g..., paths, ?y, #s
References ==
    {IRIObj(scheme, authority, path, query, fragment) :
        scheme \in {None, Some("http"), Some("g")},
        authority \in {None, Some("g")},
        path \in {p \in RefPaths : Len(p) <= 2 * MaxSegments},
        query \in {None, Some("y")},
        fragment \in {None, Some("s")}}

\* the bases: http://a/b/c/d?q, http://a/b/?q and http://a/?q
Bases ==
    {IRIObj(Some("http"), Some("a"), path, Some("q"), None) :
        path \in {<<"/", "b", "/", "c", "/", "d">>, <<"/", "b", "/">>, <<"/">>}}

InitResolve == InitAddress

\* base.resolve(iri), one of at most MaxResolveCalls calls; a reference with an
\* authority has an empty path or one that starts with "/"
ResolveCall ==
    \E base \in Bases, iri \in References :
        /\ Len(resolved) < MaxResolveCalls
        /\ (iri.authority # None /\ iri.path # <<>>) => iri.path[1] = "/"
        /\ resolved' = Append(resolved, [base |-> base, iri |-> iri, rslt |-> Resolve(base, iri)])
        /\ UNCHANGED <<lanvars, made, said, tagset>>

NextResolve == ResolveCall

SpecResolve == InitResolve /\ [][NextResolve]_vars

\* RFC 3986, section 5.2.4: remove_dot_segments, on the input buffer in and the output
\* buffer out

StartsWith(s, p) == Len(s) >= Len(p) /\ SubSeq(s, 1, Len(p)) = p

Drop(s, k) == SubSeq(s, k + 1, Len(s))

\* out without its last segment and the "/" before it
WithoutLastSegment(out) == IF RFind(out, "/") = 0 THEN <<>> ELSE SubSeq(out, 1, RFind(out, "/") - 1)

\* the first segment of a non-empty s, with its initial "/" if it has one
FirstSegment(s) ==
    IF \E k \in 2..Len(s) : s[k] = "/"
    THEN SubSeq(s, 1, (CHOOSE k \in 2..Len(s) : s[k] = "/" /\ \A j \in 2..(k - 1) : s[j] # "/") - 1)
    ELSE s

RECURSIVE RfcRemoveDotSegments(_, _)
RfcRemoveDotSegments(in, out) ==
    IF in = <<>> THEN out
    ELSE IF StartsWith(in, <<".", ".", "/">>) THEN RfcRemoveDotSegments(Drop(in, 3), out)
    ELSE IF StartsWith(in, <<".", "/">>) THEN RfcRemoveDotSegments(Drop(in, 2), out)
    ELSE IF StartsWith(in, <<"/", ".", "/">>) THEN RfcRemoveDotSegments(Drop(in, 2), out)
    ELSE IF in = <<"/", ".">> THEN RfcRemoveDotSegments(<<"/">>, out)
    ELSE IF StartsWith(in, <<"/", ".", ".", "/">>)
    THEN RfcRemoveDotSegments(Drop(in, 3), WithoutLastSegment(out))
    ELSE IF in = <<"/", ".", ".">> THEN RfcRemoveDotSegments(<<"/">>, WithoutLastSegment(out))
    ELSE IF in = <<".">> \/ in = <<".", ".">> THEN out
    ELSE RfcRemoveDotSegments(Drop(in, Len(FirstSegment(in))), out \o FirstSegment(in))

\* RFC 3986, section 5.2.3: merge
RfcMerge(base, path) ==
    IF base.authority # None /\ base.path = <<>> THEN <<"/">> \o path
    ELSE SubSeq(base.path, 1, RFind(base.path, "/")) \o path

\* RFC 3986, section 5.2.2: the target of the reference r against base, not strict: a
\* scheme equal to the base's is taken as no scheme
RfcResolve(base, r) ==
    IF r.scheme # None /\ r.scheme # base.scheme
    THEN IRIObj(r.scheme, r.authority, RfcRemoveDotSegments(r.path, <<>>), r.query, r.fragment)
    ELSE IF r.authority # None
    THEN IRIObj(base.scheme, r.authority, RfcRemoveDotSegments(r.path, <<>>), r.query,
                r.fragment)
    ELSE IF r.path = <<>>
    THEN IRIObj(base.scheme, base.authority, base.path,
                IF r.query # None THEN r.query ELSE base.query, r.fragment)
    ELSE IF r.path[1] = "/"
    THEN IRIObj(base.scheme, base.authority, RfcRemoveDotSegments(r.path, <<>>), r.query,
                r.fragment)
    ELSE IRIObj(base.scheme, base.authority,
                RfcRemoveDotSegments(RfcMerge(base, r.path), <<>>), r.query, r.fragment)

\* a reference with no scheme, or with the scheme of the base
IsRelative(base, r) == r.scheme = None \/ r.scheme = base.scheme

\* C25 as claimed: base.resolve(r) is the RFC 3986 section 5.2 resolution of every
\* relative reference r against the base.
C25_Rfc3986 ==
    \A i \in 1..Len(resolved) :
        IsRelative(resolved[i].base, resolved[i].iri) =>
            resolved[i].rslt = RfcResolve(resolved[i].base, resolved[i].iri)

-----------------------------------------------------------------------------
(* The network reference of a node and the node lists.                     *)

\* C26 as claimed: node.lan is network l exactly when the node is in the node list of l.
C26_LanAgreesWithLists ==
    \A n \in DOMAIN node, l \in DOMAIN net : node[n].lan = l <=> Places(l, n) # {}

-----------------------------------------------------------------------------
(* Sends and changes of the node lists, interleaved.                       *)

SendTimed == \E n \in AppNodes, src \in SourceChoices, dst \in DestinationChoices :
                 Indication(n, src, dst, MaxTimingCalls)

BindTimed == \E l \in DOMAIN net, n \in AppNodes : AddNodeCall(l, n, MaxTimingReconfs)

UnbindTimed == \E l \in DOMAIN net, n \in AppNodes : RemoveNodeCall(l, n, MaxTimingReconfs)

NextTiming == SendTimed \/ Run \/ BindTimed \/ UnbindTimed

SpecTiming == Init /\ [][NextTiming]_vars

\* the entries of node n in the list of network l that the PDU is meant for
Addressed(l, n, pdu) ==
    {i \in Places(l, n) :
        IF pdu.pduDestination = net[l].broadcast_address
        THEN BroadcastMatch(pdu, n)
        ELSE UnicastMatch(pdu, n)}

-----------------------------------------------------------------------------
(* A sender and the copies of its own PDU.                                 *)

\* the copies of the PDU of the i-th send that its sender has received; the data of a PDU
\* is that of no other send
OwnCopies(i) ==
    {k \in 1..Len(recv[sends[i].node]) :
        pdus[recv[sends[i].node][k]].pduData = pdus[sends[i].pdu].pduData}

\* C28: the sender of a PDU receives a copy of it only if the PDU is a unicast and the
\* sender is promiscuous or is the addressee, or the PDU is a broadcast that the sender,
\* allowed to spoof, sent with a source that is not its own address.
C28_OwnCopyOnlyIf ==
    \A i \in 1..Len(sends), d \in 1..Len(dispatched) :
        (dispatched[d].pdu = sends[i].pdu /\ OwnCopies(i) # {}) =>
            LET x == sends[i].node
                pdu == pdus[sends[i].pdu]
            IN IF pdu.pduDestination = net[dispatched[d].lan].broadcast_address
               THEN node[x].spoofing /\ pdu.pduSource # node[x].address
               ELSE node[x].promiscuous \/ pdu.pduDestination = node[x].address

\* C, which is promiscuous, sent a PDU to B and received a copy of it
C28_Witness ==
    /\ Len(sends) = 1
    /\ sends[1].node = "C"
    /\ pdus[sends[1].pdu].pduDestination = node["B"].address
    /\ OwnCopies(1) # {}

\* C28 as claimed: no node receives a copy of a PDU that it sent.
C28_NoOwnCopy == \A i \in 1..Len(sends) : OwnCopies(i) = {}

-----------------------------------------------------------------------------
(* The router on overlapping subnets, run without end.  Here the state is  *)
(* what the program holds: a PDU object that no task and no reference of   *)
(* the application reaches is garbage, the layers above the nodes keep     *)
(* nothing of what they are handed, and no count of the tasks is kept.     *)

\* the place of reference r among the references K that are kept
Rank(K, r) == Cardinality({k \in K : k <= r})

\* the scheduler runs the task at the head of its queue; then the garbage is collected
RunCollect ==
    /\ tasks # <<>>
    /\ net[Head(tasks).lan].drop_percent = 0
    /\ LET t == Head(tasks)
           st == NetworkProcessPdu([Here EXCEPT !.tasks = Tail(tasks)], t.lan, t.pdu, 0)
           kept == appPdus \cup {st.tasks[i].pdu : i \in 1..Len(st.tasks)}
       IN /\ pdus' = [i \in 1..Cardinality(kept) |->
                         st.pdus[CHOOSE r \in kept : Rank(kept, r) = i]]
          /\ tasks' = [i \in 1..Len(st.tasks) |->
                          [lan |-> st.tasks[i].lan, pdu |-> Rank(kept, st.tasks[i].pdu), seq |-> 0]]
          /\ sends' = [i \in 1..Len(sends) |-> [sends[i] EXCEPT !.pdu = Rank(kept, @)]]
          /\ recv' = [n \in DOMAIN recv |-> <<>>]
          /\ lastOp' = Op("process_pdu", t.lan, t.lan, 0, 0, pdus[t.pdu], Outcome(st))
    /\ trace' = <<>>
    /\ submitted' = 0
    /\ UNCHANGED <<net, node, router, dispatched, reconfs, mutations, made, said, resolved, tagset>>

SendBounce == \E n \in AppNodes, src \in SourceChoices, dst \in DestinationChoices :
                  Indication(n, src, dst, MaxBounceCalls)

\* router.add_network('10.0.1.125', net2): a third adapter, on 10.0.1.0/25, which lies
\* within 10.0.1.0/24
AttachOverlap == \E addr \in AdapterAddresses : AddNetwork(addr, "net2")

NextBounce == SendBounce \/ RunCollect \/ AttachOverlap

\* the scheduler runs every task it was given
SpecBounce == InitRouter /\ [][NextBounce]_vars /\ WF_vars(RunCollect)

\* C29 as claimed: whatever subnets the router is attached to, the task queue is in the
\* end empty for good.
C29_QueueDrains == <>[](tasks = <<>>)

-----------------------------------------------------------------------------
(* TagSet of local/object.py, as SequenceOfNameValue: a list of NameValue  *)
(* elements kept through add, append, discard, ts[item] = value and        *)
(* del ts[item].  A Python value is written [type, value], the value in    *)
(* its written form; the names are "a", "b" and the directive "@base".     *)

TagValue(t, v) == [type |-> t, value |-> v]

NoneValue == TagValue("NoneType", "")
Null == TagValue("Null", "")
CharacterString(s) == TagValue("CharacterString", s)
Integer(i) == TagValue("Integer", i)
Str(s) == TagValue("str", s)
Object == TagValue("object", "")

\* isinstance(value, (Atomic, DateTime))
IsAtomic(value) == value.type \in {"Null", "CharacterString", "Integer"}

NameValue(name, value) == [name |-> name, value |-> value]

\* the outcome of a method: the tags it leaves and the exception it raised, "" for none
TagResult(val, exc) == [value |-> val, exc |-> exc]

\* TagSet.index(name): the first tag of that name (0 when there is none: KeyError)
IndexName(val, name) ==
    IF \E i \in 1..Len(val) : val[i].name = name
    THEN CHOOSE i \in 1..Len(val) :
             val[i].name = name /\ \A j \in 1..(i - 1) : val[j].name # name
    ELSE 0

\* name == v.name and isinstance(value, type(v.value)) and value.value == v.value.value
TagMatches(v, name, value) ==
    name = v.name /\ value.type = v.value.type /\ value.value = v.value.value

\* TagSet.index(name, value): the first such tag (0 when there is none: ValueError);
\* without a value it looks for the name
IndexPair(val, name, value) ==
    IF value = NoneValue THEN IndexName(val, name)
    ELSE IF \E i \in 1..Len(val) : TagMatches(val[i], name, value)
    THEN CHOOSE i \in 1..Len(val) :
             TagMatches(val[i], name, value)
             /\ \A j \in 1..(i - 1) : ~TagMatches(val[j], name, value)
    ELSE 0

\* del self.value[indx], indx counted from 1
DeleteAt(val, i) == SubSeq(val, 1, i - 1) \o SubSeq(val, i + 1, Len(val))

\* None becomes Null() and a str becomes a CharacterString
Wrapped(value) ==
    IF value = NoneValue THEN Null
    ELSE IF value.type = "str" THEN CharacterString(value.value)
    ELSE value

\* name.startswith("@"), for the names of the model
IsDirective(name) == name = "@base"

\* TagSet.add(name, value)
TagAdd(val, name, value) ==
    LET v == Wrapped(value)
        held == IndexName(val, name)
    IN IF IsDirective(name) /\ v.type # "CharacterString" THEN TagResult(val, "TypeError")
       ELSE IF IsDirective(name) /\ ~(held # 0 /\ val[held].value.value = v.value)
       THEN TagResult(val, "ValueError")
       ELSE IF ~IsAtomic(v) THEN TagResult(val, "TypeError")
       ELSE IF IndexPair(val, name, v) = 0
       THEN TagResult(Append(val, NameValue(name, v)), "")
       ELSE TagResult(val, "")

\* TagSet.discard(name, value)
TagDiscard(val, name, value) ==
    LET v == Wrapped(value)
        indx == IndexPair(val, name, v)
    IN IF indx = 0 THEN TagResult(val, "ValueError")
       ELSE TagResult(DeleteAt(val, indx), "")

\* TagSet.append(NameValue(name, value)); the constructor of NameValue takes None or an
\* Atomic
TagAppend(val, name, value) ==
    IF value # NoneValue /\ ~IsAtomic(value) THEN TagResult(val, "TypeError")
    ELSE TagAdd(val, name, value)

\* ts[indx] = value, indx an integer counted from 0
SetItemAt(val, indx, value) ==
    IF indx < 0 \/ indx >= Len(val) THEN TagResult(val, "IndexError")
    ELSE IF value # NoneValue /\ ~IsAtomic(value) THEN TagResult(val, "TypeError")
    ELSE TagResult([val EXCEPT ![indx + 1].value = IF value = NoneValue THEN Null ELSE value], "")

\* ts[name] = value
SetItemNamed(val, name, value) ==
    IF IndexName(val, name) = 0 THEN TagAdd(val, name, value)
    ELSE SetItemAt(val, IndexName(val, name) - 1, value)

\* del ts[indx], indx an integer: that of a Python list
DelItemAt(val, indx) ==
    IF indx >= Len(val) \/ indx < 0 - Len(val) THEN TagResult(val, "IndexError")
    ELSE IF indx < 0 THEN TagResult(DeleteAt(val, Len(val) + indx + 1), "")
    ELSE TagResult(DeleteAt(val, indx + 1), "")

\* del ts[name]
DelItemNamed(val, name) ==
    IF IndexName(val, name) = 0 THEN TagResult(val, "KeyError")
    ELSE TagResult(DeleteAt(val, IndexName(val, name)), "")

\* del ts[name, value]
DelItemPair(val, name, value) ==
    IF IndexPair(val, name, value) = 0
    THEN TagResult(val, IF value = NoneValue THEN "KeyError" ELSE "ValueError")
    ELSE TagResult(DeleteAt(val, IndexPair(val, name, value)), "")

TagNames == {"a", "b", "@base"}
TagArguments == {NoneValue, Str("x"), CharacterString("x"), Integer("1"), Integer("2"), Object}
TagIndexes == {0 - 1, 0, 1}

\* the operation last called: its name, the name or index it was given, its value
TagOp(op, name, indx, value, exc) ==
    [op |-> op, name |-> name, indx |-> indx, value |-> value, exc |-> exc]

\* a TagSet and the operation that left it so
Called(op, name, indx, value, rslt) ==
    /\ Len(rslt.value) <= MaxTags
    /\ tagset' = [value |-> rslt.value, last |-> TagOp(op, name, indx, value, rslt.exc)]
    /\ UNCHANGED <<lanvars, made, said, resolved>>

\* a SequenceOfNameValue, constructed empty or with a @base
InitTags ==
    /\ net = [l \in {} |-> 0]
    /\ node = [n \in {} |-> 0]
    /\ router = [nodes |-> <<>>]
    /\ tasks = <<>>
    /\ pdus = <<>>
    /\ recv = [n \in {} |-> <<>>]
    /\ lastOp = Op("init", "", NoLan, 0, 0, None, "ok")
    /\ trace = <<>>
    /\ sends = <<>>
    /\ submitted = 0
    /\ dispatched = <<>>
    /\ reconfs = 0
    /\ mutations = 0
    /\ made = <<>>
    /\ said = NoEnquiry
    /\ resolved = <<>>
    /\ \E val \in {<<>>, <<NameValue("@base", CharacterString("x"))>>} :
           tagset = [value |-> val, last |-> TagOp("init", "", 0, NoneValue, "")]

AddCall == \E name \in TagNames, value \in TagArguments :
               Called("add", name, 0, value, TagAdd(tagset.value, name, value))

AppendCall == \E name \in TagNames, value \in TagArguments :
                  Called("append", name, 0, value, TagAppend(tagset.value, name, value))

DiscardCall == \E name \in TagNames, value \in TagArguments :
                   Called("discard", name, 0, value, TagDiscard(tagset.value, name, value))

SetItemCall ==
    \E value \in TagArguments :
        \/ \E indx \in TagIndexes :
               Called("setitem", "", indx, value, SetItemAt(tagset.value, indx, value))
        \/ \E name \in TagNames :
               Called("setitem", name, 0, value, SetItemNamed(tagset.value, name, value))

DelItemCall ==
    \/ \E indx \in TagIndexes : Called("delitem", "", indx, NoneValue, DelItemAt(tagset.value, indx))
    \/ \E name \in TagNames :
           Called("delitem", name, 0, NoneValue, DelItemNamed(tagset.value, name))
    \/ \E name \in TagNames, value \in TagArguments \ {NoneValue} :
           Called("delitem", name, 0, value, DelItemPair(tagset.value, name, value))

NextTags == AddCall \/ AppendCall \/ DiscardCall \/ SetItemCall \/ DelItemCall

SpecTags == InitTags /\ [][NextTags]_vars

\* two tags of the same name whose values are of the same type and equal
Duplicated(val) ==
    \E i, j \in 1..Len(val) : i # j /\ TagMatches(val[i], val[j].name, val[j].value)

\* add or append of a pair the TagSet holds has left the tags as they were
AddOfPresentUnchanged ==
    \A name \in TagNames, value \in TagArguments :
        (/\ tagset'.last.op \in {"add", "append"}
         /\ tagset'.last.name = name
         /\ tagset'.last.value = value
         /\ IsAtomic(Wrapped(value))
         /\ IndexPair(tagset.value, name, Wrapped(value)) # 0)
        => tagset'.value = tagset.value

\* C30 as claimed: through add, append, discard, ts[item] = value and del ts[item] a
\* TagSet never holds two tags of the same name with equal values of the same type, and
\* add of a pair it holds leaves it as it was.
C30_MutableSet == [](~Duplicated(tagset.value)) /\ [][AddOfPresentUnchanged]_vars

====
